---- MODULE Spec2Model ----
(***************************************************************************)
(* Installation orchestration of systemaudit/ignore: the orchestrator     *)
(* (handlers/install.py), the installation ledger                         *)
(* (database/installations.py), the remote execution client               *)
(* (core/ssh_manager.py) and the thresholds of config/settings.py.        *)
(***************************************************************************)
EXTENDS Integers, Sequences, FiniteSets, TLC

VARIABLES
    now,                \* wall clock / event-loop clock, in seconds
    faults,             \* TRUE when queries may fail and a send may raise
    lag,                \* seconds by which each monitoring sleep oversleeps
    stalls,             \* number of long stalls of the process so far
    dbFailures,         \* number of failed ledger queries so far
    offered,            \* the install requests the front-ends hand to each run
    hosts,              \* the kind of remote hosts the runs meet
    detail,             \* TRUE when the replies of the remote host are kept
    process,            \* the process: running, stopping, cancelling, exited
    bot,                \* NotificationService.bot is set
    stats,              \* users table: install counters of the owner
    installations,      \* ledger table: install_id -> record
    logs,               \* ledger log table: install_id -> sequence of messages
    nextId,             \* source of fresh install ids (uuid4 in the code)
    pc,                 \* position of each run of process_installation
    inp,                \* install_data / source of each run
    install_id,         \* local install_id of each run (0 is None / "")
    ssh,                \* local ssh of each run: TRUE once SSHManager() was built
    connections,        \* SSHManager.connections of each manager: address ->
                        \* the run whose connect opened the session
    openSessions,       \* remote sessions of each run that are still open
    error,              \* local error / message of each run
    specs,              \* local specs of each run
    boot_mode,          \* local boot_mode of each run
    monitoring_start,   \* local monitoring_start of each run
    consecutive_closed_count, \* local counter of each run
    result_data,        \* local result_data of each run
    returned,           \* status returned by each run (<<>> while running)
    written,            \* history: phases each run committed to the ledger
    remoteOps,          \* history: remote operations each run invoked
    probeTail,          \* history: closed probes at the tail of the probe sequence
    probeCount,         \* history: number of probes of the monitoring port
    seenOpen,           \* history: some probe found the monitoring port open
    lastElapsed,        \* history: elapsed time seen by the last deadline test
    cleanupRan,         \* history: ssh.cleanup() was awaited by the run
    connectCause,       \* history: how the connect attempt of the run ended
    notified,           \* history: notification kinds delivered for each run
    replies,            \* history: what the host replied to each run, and the result
    touched,            \* history: runs whose session an operation of each run used
    attempted,          \* history: notification kinds each run called send_message for
    accepted,           \* the install_id the API front-end returned for each run (0: none)
    active_installations, \* InstallHandler.active_installations: key -> run (0: no entry)
    staging,            \* /root/windows_install of each host: the run whose
                        \* reinstall.sh is there (0: no script)
    logRows,            \* installation_logs with its timestamp column, as read
    fetched,            \* the last get_logs call: arguments, table, result
    resolved,           \* the get_image_url calls made so far
    query               \* the ledger query in progress: its loop and its attempts

readVars == <<logRows, fetched, resolved, query>>
envVars == <<faults, lag, offered, hosts, detail, bot, process, readVars>>
ledgerVars == <<installations, logs, nextId>>
sshVars == <<ssh, connections, openSessions>>
localVars == <<error, specs, boot_mode, monitoring_start,
               consecutive_closed_count, result_data, returned>>
probeVars == <<probeTail, probeCount, seenOpen>>
hostVars == <<replies, touched>>
histRest == <<remoteOps, probeVars, lastElapsed, cleanupRan, connectCause,
              hostVars>>
histVars == <<written, notified, histRest>>
frontVars == <<attempted, accepted, active_installations, staging>>

vars == <<now, stalls, dbFailures, stats, pc, inp, install_id, envVars,
          ledgerVars, sshVars, localVars, histVars, frontVars>>

----------------------------------------------------------------------------
(* Bounds of the model *)

\* number of times the environment may stall the process for a long while
MaxStalls == 1
\* number of ledger queries that may fail in one behaviour
MaxDbFailures == 1
\* number of rows of the log table and latest timestamp in the read model
MaxLogRows == 3
MaxLogTime == 2
\* number of days the clock may be moved on in the retention model
MaxDays == 8
\* number of ledger queries made one after the other in the query model
MaxQueries == 2

(* Program constants, config/settings.py *)
RDP_PORT == 22
MIN_RAM_MB == 2048
MIN_DISK_GB == 30
TIMEOUT_INSTALLATION == 1800
TIMEOUT_MONITORING_START == 360
TIMEOUT_MONITORING_INTERVAL == 10
TIMEOUT_MONITORING_CHECKS == 2
MONITORING_PORT == 80
CLEANUP_OLD_INSTALLS_DAYS == 7
DB_RETRY_ATTEMPTS == 3
DB_RETRY_DELAY == 5
SUPPORTED_OS_TYPES == {"ubuntu", "debian"}
SUPPORTED_BOOT_MODES == {"uefi", "legacy"}

INSTALL_STATUS_STARTING == "starting"
INSTALL_STATUS_CONNECTING == "connecting"
INSTALL_STATUS_CHECKING == "checking"
INSTALL_STATUS_PREPARING == "preparing"
INSTALL_STATUS_INSTALLING == "installing"
INSTALL_STATUS_MONITORING == "monitoring"
INSTALL_STATUS_COMPLETED == "completed"
INSTALL_STATUS_FAILED == "failed"
INSTALL_STATUS_TIMEOUT == "timeout"

\* active_statuses of cleanup_stuck_installations / get_active_installations
active_statuses ==
    {INSTALL_STATUS_STARTING, INSTALL_STATUS_CONNECTING,
     INSTALL_STATUS_CHECKING, INSTALL_STATUS_PREPARING,
     INSTALL_STATUS_INSTALLING, INSTALL_STATUS_MONITORING}

TerminalStatuses ==
    {INSTALL_STATUS_COMPLETED, INSTALL_STATUS_FAILED, INSTALL_STATUS_TIMEOUT}

\* the order in which process_installation writes the non-terminal phases
PhaseOrder ==
    <<INSTALL_STATUS_STARTING, INSTALL_STATUS_CONNECTING,
      INSTALL_STATUS_CHECKING, INSTALL_STATUS_PREPARING,
      INSTALL_STATUS_INSTALLING, INSTALL_STATUS_MONITORING>>

\* nullable columns and Optional values: <<>> is NULL / None, <<x>> a value;
\* a text built by an f-string is the sequence of its parts
Null == <<>>
Some(x) == <<x>>

Runs == {1, 2}

\* length of one stall (slow ledger, slow chat API, suspended process): long
\* enough for a record to pass the cutoff of the stuck-job sweep
StallSeconds == TIMEOUT_INSTALLATION + 1
\* oversleep of each monitoring sleep on a loaded event loop
LagSeconds == (TIMEOUT_INSTALLATION - TIMEOUT_MONITORING_START) \div 3

----------------------------------------------------------------------------
(* Installation ledger, database/installations.py *)

OWNER == 1

\* the row create_installation inserts (last_update, which no read of the
\* orchestration uses, is left out)
NewInstallation(user_id, install_data, t) ==
    [user_id |-> user_id,
     status |-> INSTALL_STATUS_STARTING,
     start_time |-> t,
     end_time |-> Null,
     ip |-> install_data.ip,
     os_code |-> install_data.os_code,
     boot_mode |-> "unknown",
     current_step |-> <<"Starting installation">>,
     error |-> Null,
     rdp_info |-> Null]

\* extra_data of update_status: each key is Null when absent
NoExtra == [error |-> Null, rdp_info |-> Null, boot_mode |-> Null]
ErrorExtra(e) == [error |-> Some(e), rdp_info |-> Null, boot_mode |-> Null]
CompletedExtra(rdp, bm) ==
    [error |-> Null, rdp_info |-> Some(rdp), boot_mode |-> Some(bm)]

ForcePort(rdp_info) == [rdp_info EXCEPT !.port = RDP_PORT]

\* faulty variant of CompletedRow: the boot mode is not stored
CompletedRowNoBootMode(row, extra_data, t) ==
    [row EXCEPT
        !.status = INSTALL_STATUS_COMPLETED,
        !.end_time = Some(t),
        !.current_step = <<"Installation complete">>,
        !.rdp_info = IF extra_data.rdp_info # Null
                     THEN Some(ForcePort(extra_data.rdp_info[1])) ELSE @]

\* the columns update_status sets for a completed run
CompletedRow(row, extra_data, t) ==
    [row EXCEPT
        !.status = INSTALL_STATUS_COMPLETED,
        !.end_time = Some(t),
        !.current_step = <<"Installation complete">>,
        !.rdp_info = IF extra_data.rdp_info # Null
                     THEN Some(ForcePort(extra_data.rdp_info[1])) ELSE @,
        !.boot_mode = IF extra_data.boot_mode # Null
                      THEN extra_data.boot_mode[1] ELSE @]

\* the columns update_status sets for a failed run
FailedRow(row, extra_data, t) ==
    [row EXCEPT
        !.status = INSTALL_STATUS_FAILED,
        !.end_time = Some(t),
        !.current_step = <<"Failed: ",
                            IF extra_data.error # Null
                            THEN extra_data.error[1] ELSE "Unknown error">>,
        !.error = IF extra_data.error # Null
                  THEN extra_data.error ELSE Some("Unknown error")]

\* the columns update_status sets for a run that timed out
TimeoutRow(row, extra_data, t) ==
    [row EXCEPT
        !.status = INSTALL_STATUS_TIMEOUT,
        !.end_time = Some(t),
        !.current_step = <<"Installation timeout">>,
        !.error = Some("Installation exceeded 30 minutes timeout")]

\* the UPDATE of update_status applied to one row
StatusRow(row, status, extra_data, t) ==
    CASE status = INSTALL_STATUS_COMPLETED -> CompletedRow(row, extra_data, t)
      [] status = INSTALL_STATUS_FAILED -> FailedRow(row, extra_data, t)
      [] status = INSTALL_STATUS_TIMEOUT -> TimeoutRow(row, extra_data, t)
      [] OTHER -> [row EXCEPT !.status = status]

\* faulty variant of IsStuck: the status of the row is not tested
IsStuckAnyStatus(row, t) == row.start_time < t - TIMEOUT_INSTALLATION

\* the WHERE clause of cleanup_stuck_installations
IsStuck(row, t) ==
    /\ row.start_time < t - TIMEOUT_INSTALLATION
    /\ row.status \in active_statuses

\* faulty variant of SweptRow: the status column is not set
SweptRowKeepsStatus(row, t) ==
    [row EXCEPT
        !.error = Some("Installation timeout (30 minutes)"),
        !.end_time = Some(t),
        !.current_step = <<"Installation timeout">>]

\* the SET clause of cleanup_stuck_installations
SweptRow(row, t) ==
    [row EXCEPT
        !.status = INSTALL_STATUS_TIMEOUT,
        !.error = Some("Installation timeout (30 minutes)"),
        !.end_time = Some(t),
        !.current_step = <<"Installation timeout">>]

\* the table after the UPDATE of cleanup_stuck_installations at time t
Sweep(table, t) ==
    [id \in DOMAIN table |->
        IF IsStuck(table[id], t) THEN SweptRow(table[id], t) ELSE table[id]]

\* the row count cleanup_stuck_installations returns
Affected(table, t) ==
    Cardinality({id \in DOMAIN table : IsStuck(table[id], t)})

IMAGES_UEFI_URL == "https://winstaller.io/eufi/"
IMAGES_BIOS_URL == "https://winstaller.io/bios/"

\* the image names of WINDOWS_OS, for two of its codes
WINDOWS_OS == [ws2019 |-> "windows2019", w10pro |-> "windows10"]

\* arguments of get_image_url: OS codes of the table and one that is not in
\* it; the boot modes that exist and two other strings
OsSelectors == {"ws2019", "w10pro", "w12"}
BootModes == {"uefi", "legacy", "unknown", "UEFI"}

\* faulty variant of get_image_url: the two URL prefixes exchanged
get_image_url_swapped(os_code, mode) ==
    LET image_name == IF os_code \in DOMAIN WINDOWS_OS
                      THEN WINDOWS_OS[os_code] ELSE "windows10"
    IN  IF mode = "uefi" THEN <<IMAGES_BIOS_URL, image_name, ".gz">>
        ELSE <<IMAGES_UEFI_URL, image_name, ".gz">>

\* get_image_url: a URL is the sequence of the parts of the f-string
get_image_url(os_code, mode) ==
    LET image_name == IF os_code \in DOMAIN WINDOWS_OS
                      THEN WINDOWS_OS[os_code] ELSE "windows10"
    IN  IF mode = "uefi" THEN <<IMAGES_UEFI_URL, image_name, ".gz">>
        ELSE <<IMAGES_BIOS_URL, image_name, ".gz">>

\* timedelta(days=days) in seconds
SecondsPerDay == 86400

\* the days argument of cleanup_old_installations: None, or a number
RetentionDays == {Null, Some(0), Some(1)}

\* days = days or Settings.CLEANUP_OLD_INSTALLS_DAYS
retention_days(days) ==
    IF days = Null \/ days[1] = 0 THEN CLEANUP_OLD_INSTALLS_DAYS ELSE days[1]

\* faulty variant of IsExpired: the status of the row is not tested
IsExpiredAnyStatus(row, t, days) ==
    row.start_time < t - retention_days(days) * SecondsPerDay

\* the WHERE clause of cleanup_old_installations
IsExpired(row, t, days) ==
    /\ row.start_time < t - retention_days(days) * SecondsPerDay
    /\ row.status \in {INSTALL_STATUS_COMPLETED, INSTALL_STATUS_FAILED,
                        INSTALL_STATUS_TIMEOUT}

\* the table after the DELETE of cleanup_old_installations at time t
Retained(table, t, days) ==
    [id \in {i \in DOMAIN table : ~IsExpired(table[i], t, days)} |->
        table[id]]

\* faulty variant of NormalizedRdp: the payload is returned as stored
StoredRdp(rdp_info) == rdp_info

\* deserialised rdp_info of a read, with the port forced (get, get_user_installations)
NormalizedRdp(rdp_info) ==
    IF rdp_info # Null THEN Some([rdp_info[1] EXCEPT !.port = RDP_PORT])
    ELSE rdp_info

\* what get(install_id) returns: None for a missing row
get(id) ==
    IF id \in DOMAIN installations
    THEN Some([installations[id] EXCEPT !.rdp_info = NormalizedRdp(@)])
    ELSE Null

\* what get_user_installations(user_id) returns, as a set of rows
get_user_installations(user_id) ==
    {[installations[id] EXCEPT !.rdp_info = NormalizedRdp(@)] :
        id \in {i \in DOMAIN installations : installations[i].user_id = user_id}}

\* outcomes of one ledger query after its retries: TRUE is committed; failed
\* queries are explored in the behaviours without a long stall
DbOutcomes ==
    IF faults /\ dbFailures < MaxDbFailures /\ stalls = 0 THEN {TRUE, FALSE}
    ELSE {TRUE}

\* add_log: the INSERT into the log table (a failed INSERT is swallowed); the
\* rows of one installation are kept in the order of their timestamps
add_log(table, id, message, ok) ==
    IF ok /\ id \in DOMAIN table
    THEN [table EXCEPT ![id] = Append(@, message)]
    ELSE table

\* the INSERT of add_log into a table that keeps its timestamp column
add_log_row(rows, id, t) ==
    Append(rows, [install_id |-> id, timestamp |-> t,
                  message |-> <<"line ", Len(rows) + 1>>])

\* the orders in which ORDER BY timestamp DESC can deliver the rows of one
\* installation: rows with equal timestamps come in any order
DescOrders(rows, id) ==
    LET I == {i \in 1..Len(rows) : rows[i].install_id = id}
        n == Cardinality(I)
    IN  {f \in [1..n -> I] :
            /\ \A a, b \in 1..n : a # b => f[a] # f[b]
            /\ \A a, b \in 1..n :
                a < b => rows[f[a]].timestamp >= rows[f[b]].timestamp}

Min(a, b) == IF a < b THEN a ELSE b

\* formatted_logs of get_logs: the first `limit` rows of one order
Formatted(rows, f, limit) ==
    [k \in 1..Min(limit, Len(f)) |->
        [time |-> rows[f[k]].timestamp, message |-> rows[f[k]].message]]

Reversed(q) == [k \in 1..Len(q) |-> q[Len(q) + 1 - k]]

\* faulty variant of get_logs: the fetched rows are not reversed
get_logs_unreversed(rows, id, limit) ==
    {Formatted(rows, f, limit) : f \in DescOrders(rows, id)}

\* get_logs(install_id, limit): every list it can return
get_logs(rows, id, limit) ==
    {Reversed(Formatted(rows, f, limit)) : f \in DescOrders(rows, id)}

\* update_status as awaited by run r: the UPDATE ... WHERE install_id, then
\* add_log when a row was changed; every error is swallowed
update_status(r, status, extra_data) ==
    \E ok \in DbOutcomes, logok \in DbOutcomes :
        LET id == install_id[r]
            hit == ok /\ id \in DOMAIN installations
        IN  /\ hit \/ logok
            /\ installations' =
                IF hit
                THEN [installations EXCEPT
                        ![id] = StatusRow(@, status, extra_data, now)]
                ELSE installations
            /\ logs' = add_log(logs, id, <<"Status changed to: ", status>>,
                               hit /\ logok)
            /\ written' = IF hit THEN [written EXCEPT ![r] = Append(@, status)]
                          ELSE written
            /\ dbFailures' = IF ok /\ logok THEN dbFailures ELSE dbFailures + 1

\* update_step as awaited by run r: current_step and last_update, then add_log
update_step(r, step) ==
    \E ok \in DbOutcomes, logok \in DbOutcomes :
        LET id == install_id[r]
            hit == ok /\ id \in DOMAIN installations
        IN  /\ hit \/ logok
            /\ installations' =
                IF hit
                THEN [installations EXCEPT ![id].current_step = step]
                ELSE installations
            /\ logs' = add_log(logs, id, step, hit /\ logok)
            /\ dbFailures' = IF ok /\ logok THEN dbFailures ELSE dbFailures + 1

\* update_install_stats: one UPDATE of the owner's counters, errors swallowed
update_install_stats(success) ==
    \E ok \in DbOutcomes :
        /\ stats' =
            IF ~ok THEN stats
            ELSE IF success
            THEN [stats EXCEPT !.total_installs = @ + 1,
                               !.success_installs = @ + 1]
            ELSE [stats EXCEPT !.total_installs = @ + 1,
                               !.failed_installs = @ + 1]
        /\ dbFailures' = IF ok THEN dbFailures ELSE dbFailures + 1

----------------------------------------------------------------------------
(* Notifier, utils/helpers.py NotificationService *)

\* faulty variant of ShouldNotify: the source of the run is not tested
ShouldNotifyAnySource(r) == inp[r].linked /\ bot

\* the guard every notify_* method applies before it sends
ShouldNotify(r) == inp[r].source = "api" /\ inp[r].linked /\ bot

\* major_steps filter of notify_installation_progress on step.lower()
IsMajorStep(step) ==
    step \in {"Installing Windows", "Monitoring progress"}

\* how one notify_* call can end: nothing to send, delivered, a TelegramError
\* (logged and swallowed), or another exception, which is not caught there
SendOutcomes(r, wanted) ==
    IF ShouldNotify(r) /\ wanted
    THEN {"sent", "TelegramError"} \cup (IF faults THEN {"Exception"} ELSE {})
    ELSE {"none"}

\* the major phase a step text names, as the filter finds it in step.lower()
MajorPhaseOf(step) ==
    CASE step = "Installing Windows" -> INSTALL_STATUS_INSTALLING
      [] step = "Monitoring progress" -> INSTALL_STATUS_MONITORING
      [] OTHER -> ""

\* the kinds for which bot.send_message was called: every outcome but none
Attempted(r, kind, outcome) ==
    IF outcome = "none" THEN attempted
    ELSE [attempted EXCEPT ![r] = @ \cup {kind}]

Delivered(r, kind, outcome) ==
    IF outcome = "sent" THEN [notified EXCEPT ![r] = Append(@, kind)]
    ELSE notified

----------------------------------------------------------------------------
(* Remote execution client, core/ssh_manager.py *)

AUTH_ERROR == "Authentication failed - incorrect password or username"
UNREACHABLE_ERROR == "Connection timeout - VPS unreachable or SSH port blocked"
OTHER_CONNECT_ERROR == "Connection error"

\* how asyncssh.connect under wait_for can end
ConnectOutcomes == {"Connected", "PermissionDenied", "TimeoutError", "OSError"}

\* faulty variant of connect_error: the two cause strings exchanged
connect_error_swapped(exc) ==
    CASE exc = "PermissionDenied" -> UNREACHABLE_ERROR
      [] exc = "TimeoutError" -> AUTH_ERROR
      [] OTHER -> OTHER_CONNECT_ERROR

\* the message connect returns for each exception class it catches
connect_error(exc) ==
    CASE exc = "PermissionDenied" -> AUTH_ERROR
      [] exc = "TimeoutError" -> UNREACHABLE_ERROR
      [] OTHER -> OTHER_CONNECT_ERROR

\* faulty variant of SSHManager: one manager object serves every run
SSHManagerShared(r) == 1

\* ssh = SSHManager() (install.py line 148): every run builds a manager of
\* its own, known here by the run that built it
SSHManager(r) == r

\* the empty connections dict of __init__
NoSessions == [ip \in {} |-> 0]

\* `ip in self.connections` for the manager and the address of run r
Connected(r) == inp[r].ip \in DOMAIN connections[SSHManager(r)]

\* the runs whose session self.connections[ip] is, for the address of run r
SessionOwners(r) ==
    IF Connected(r) THEN {connections[SSHManager(r)][inp[r].ip]} ELSE {}

\* a text is the sequence of its words; the two markers of start_installation
\* are matched as case-sensitive substrings
HasMarker(text) ==
    \E i \in 1..Len(text) : text[i] \in {"Error", "Failed"}

\* how a command sent with execute can end: it returned (with any exit
\* status), it exceeded the timeout of the call, or the channel raised
ExecEndings == {"returned", "timeout", "raised"}

\* execute (lines 67-96) on a connected session: a command that returned is a
\* success whatever its exit status; after a timeout or an exception the
\* output of the command is dropped and stderr holds the text of the cause
execute(ending, stdout, stderr) ==
    CASE ending = "returned" ->
            [success |-> TRUE, stdout |-> stdout, stderr |-> stderr]
      [] ending = "timeout" ->
            [success |-> FALSE, stdout |-> <<>>,
             stderr |-> <<"Command", "timeout", "after", "seconds">>]
      [] ending = "raised" ->
            [success |-> FALSE, stdout |-> <<>>,
             stderr |-> <<"Connection", "lost">>]

\* outcomes of the read-only probes: Null is a probe whose execute failed or
\* whose output was empty or, for a number, not parsable
RamProbes == {Null, Some(1024), Some(2048)}
DiskProbes == {Null, Some(20), Some(40)}
CpuProbes == {Null, Some(2)}
OsProbes == {Null, Some("ubuntu"), Some("centos")}
BootProbes == {Null, Some("uefi"), Some("legacy")}

\* outcomes of CHECK_OS_FALLBACK, which prints debian or unknown
FallbackProbes == {Null, Some("unknown"), Some("debian")}

\* what the host replies to the probes of one check_system_specs call
Probes ==
    [ram : RamProbes, disk : DiskProbes, cpu : CpuProbes, os : OsProbes,
     fallback : FallbackProbes, boot : BootProbes]

DefaultSpecs ==
    [ram_mb |-> 0, disk_gb |-> 0, cpu_cores |-> 0, os_type |-> "unknown",
     boot_mode |-> "unknown"]

\* detect_boot_mode: a recognised value, else legacy
detect_boot_mode(probe) ==
    IF probe # Null /\ probe[1] \in SUPPORTED_BOOT_MODES THEN probe[1]
    ELSE "legacy"

\* faulty variant of check_system_specs: a failed RAM probe ends the check
\* with the fields that follow at their defaults
check_system_specs_aborting(connected, p) ==
    IF ~connected \/ p.ram = Null THEN DefaultSpecs
    ELSE [ram_mb |-> p.ram[1],
          disk_gb |-> IF p.disk # Null THEN p.disk[1] ELSE DefaultSpecs.disk_gb,
          cpu_cores |-> IF p.cpu # Null THEN p.cpu[1] ELSE DefaultSpecs.cpu_cores,
          os_type |-> IF p.os # Null THEN p.os[1]
                      ELSE IF p.fallback # Null THEN p.fallback[1]
                      ELSE DefaultSpecs.os_type,
          boot_mode |-> detect_boot_mode(p.boot)]

\* check_system_specs: without a session the defaults; else each field keeps
\* its default unless its probe succeeded, the OS family falls back to the
\* second probe, and the boot mode is what detect_boot_mode returns
check_system_specs(connected, p) ==
    IF ~connected THEN DefaultSpecs
    ELSE [ram_mb |-> IF p.ram # Null THEN p.ram[1] ELSE DefaultSpecs.ram_mb,
          disk_gb |-> IF p.disk # Null THEN p.disk[1] ELSE DefaultSpecs.disk_gb,
          cpu_cores |-> IF p.cpu # Null THEN p.cpu[1] ELSE DefaultSpecs.cpu_cores,
          os_type |-> IF p.os # Null THEN p.os[1]
                      ELSE IF p.fallback # Null THEN p.fallback[1]
                      ELSE DefaultSpecs.os_type,
          boot_mode |-> detect_boot_mode(p.boot)]

\* the fields of the specs dict that process_installation reads
SpecsRead(sp) ==
    [ram_mb |-> sp.ram_mb, disk_gb |-> sp.disk_gb, os_type |-> sp.os_type,
     boot_mode |-> sp.boot_mode]

\* what the host does with the two commands of prepare_installation that are
\* looked at: how the download command (cd && wget -O && chmod) ended and
\* with which exit status, whether reinstall.sh exists afterwards (wget -O
\* creates the file before it transfers), and how the verify command ended
Preparations ==
    {p \in [download : ExecEndings, status : {0, 1}, present : BOOLEAN,
            verify : ExecEndings] :
        /\ p.download # "returned" => p.status = 1
        /\ (p.download = "returned" /\ p.status = 0) => p.present}

\* VERIFY_SCRIPT prints OK when the file exists, FAIL otherwise
verify_stdout(present) == IF present THEN <<"OK">> ELSE <<"FAIL">>

\* prepare_installation: the execute of the download must succeed and the
\* verify must succeed and print OK
prepare_installation(connected, p) ==
    LET download == execute(p.download, <<>>, <<>>)
        verify == execute(p.verify, verify_stdout(p.present), <<>>)
    IN  IF ~connected THEN [success |-> FALSE, error |-> "Not connected"]
        ELSE IF ~download.success
        THEN [success |-> FALSE, error |-> "Failed to download script"]
        ELSE IF verify.success /\ (\E i \in 1..Len(verify.stdout) :
                                        verify.stdout[i] = "OK")
        THEN [success |-> TRUE, error |-> "Ready"]
        ELSE [success |-> FALSE, error |-> "Script verification failed"]

\* what the install command had written to stderr when it ended
Stderrs == {<<>>, <<"Error", "disk">>, <<"dd", "Failed">>,
            <<"error", "ignored">>, <<"warning">>}

\* how the host runs the install command and the reboot command
InstallOutcomes ==
    [ending : ExecEndings, stderr : Stderrs, reboot : ExecEndings]

\* faulty variant of start_installation: a reboot that could not be
\* scheduled fails the call
start_installation_reboot_fatal(connected, o) ==
    LET res == execute(o.ending, <<>>, o.stderr)
        rebooted == execute(o.reboot, <<>>, <<>>)
    IN  IF ~connected
        THEN [success |-> FALSE, message |-> "Not connected", reboots |-> 0]
        ELSE IF HasMarker(res.stderr)
        THEN [success |-> FALSE, message |-> "Installation error",
              reboots |-> 0]
        ELSE IF ~rebooted.success
        THEN [success |-> FALSE, message |-> "Installation error",
              reboots |-> 1]
        ELSE [success |-> TRUE,
              message |-> "Installation configured successfully",
              reboots |-> 1]

\* start_installation: the marker test on the stderr that execute returned,
\* then one execute of SCHEDULE_REBOOT whose result is not looked at;
\* reboots is the number of times the reboot command was sent
start_installation(connected, o) ==
    LET res == execute(o.ending, <<>>, o.stderr)
    IN  IF ~connected
        THEN [success |-> FALSE, message |-> "Not connected", reboots |-> 0]
        ELSE IF HasMarker(res.stderr)
        THEN [success |-> FALSE, message |-> "Installation error",
              reboots |-> 0]
        ELSE [success |-> TRUE,
              message |-> "Installation configured successfully",
              reboots |-> 1]

\* every reply of a host to the calls that look at replies
AllHosts ==
    [connects |-> ConnectOutcomes, probes |-> Probes,
     preparations |-> Preparations, installs |-> InstallOutcomes]

\* hosts on which the fallback probe, when it runs, finds no Debian
StandardHosts ==
    [AllHosts EXCEPT !.probes = {p \in Probes : p.fallback # Some("debian")}]

\* a host that passes every check, downloads and installs
GoodProbes ==
    [ram |-> Some(2048), disk |-> Some(40), cpu |-> Some(2),
     os |-> Some("ubuntu"), fallback |-> Null, boot |-> Some("uefi")]
GoodPreparation ==
    [download |-> "returned", status |-> 0, present |-> TRUE,
     verify |-> "returned"]
GoodInstall == [ending |-> "timeout", stderr |-> <<>>, reboot |-> "returned"]

\* two kinds of host: the good one and one that fails each call
FewHosts ==
    [connects |-> {"Connected", "TimeoutError"},
     probes |-> {GoodProbes, [GoodProbes EXCEPT !.ram = Some(1024)]},
     preparations |-> {GoodPreparation,
                       [GoodPreparation EXCEPT !.download = "raised",
                                               !.status = 1,
                                               !.present = FALSE]},
     installs |-> {GoodInstall,
                   [GoodInstall EXCEPT !.ending = "returned",
                                       !.stderr = <<"Error", "disk">>]}]

\* hosts that accept the connection and pass every call
GoodHosts ==
    [connects |-> {"Connected"}, probes |-> {GoodProbes},
     preparations |-> {GoodPreparation}, installs |-> {GoodInstall}]

\* the kinds of host, by name: the replies they can give to the calls
HostKinds ==
    [standard |-> StandardHosts,
     few |-> FewHosts,
     good |-> GoodHosts,
     installs_few |-> [GoodHosts EXCEPT !.installs = FewHosts.installs],
     probes |-> [GoodHosts EXCEPT !.probes = Probes],
     preparations |-> [GoodHosts EXCEPT !.preparations = Preparations],
     installs |-> [GoodHosts EXCEPT !.installs = InstallOutcomes]]

\* the replies the hosts of this behaviour can give
Host == HostKinds[hosts]

\* what the host replied to a run, kept as history: Null until the call
NoReplies == [specs |-> Null, prepare |-> Null, install |-> Null]

\* the replies after a call: its input and its result are kept
Kept(r, call, in, out) ==
    IF detail
    THEN [replies EXCEPT ![r][call] = Some([in |-> in, out |-> out])]
    ELSE replies

----------------------------------------------------------------------------
(* Installation orchestrator, handlers/install.py process_installation *)

\* faulty variant of spec_error: the disk check made before the RAM check
spec_error_disk_first(sp) ==
    IF sp.disk_gb < MIN_DISK_GB THEN Some("Insufficient disk")
    ELSE IF sp.ram_mb < MIN_RAM_MB THEN Some("Insufficient RAM")
    ELSE IF sp.os_type \notin SUPPORTED_OS_TYPES THEN Some("Unsupported OS")
    ELSE Null

\* the checks of the checking phase, in the order of the code
spec_error(sp) ==
    IF sp.ram_mb < MIN_RAM_MB THEN Some("Insufficient RAM")
    ELSE IF sp.disk_gb < MIN_DISK_GB THEN Some("Insufficient disk")
    ELSE IF sp.os_type \notin SUPPORTED_OS_TYPES THEN Some("Unsupported OS")
    ELSE Null

max_monitoring_time == TIMEOUT_INSTALLATION - TIMEOUT_MONITORING_START

\* faulty variant of deadline_passed: the pre-monitoring wait not subtracted
deadline_passed_whole(current_time, start) ==
    current_time - start > TIMEOUT_INSTALLATION

\* the deadline test at the top of the monitoring loop
deadline_passed(current_time, start) == current_time - start > max_monitoring_time

\* faulty variant of next_closed_count: an open probe keeps the misses counted
next_closed_count_sticky(count, port_open) ==
    IF port_open THEN count ELSE count + 1

\* the counter after one probe of the monitoring port
next_closed_count(count, port_open) == IF port_open THEN 0 ELSE count + 1

\* faulty variant of installation_complete: one more miss than required
installation_complete_strict(count, port_open) ==
    ~port_open /\ count > TIMEOUT_MONITORING_CHECKS

\* the exit test of the monitoring loop, made only after a closed probe
installation_complete(count, port_open) ==
    ~port_open /\ count >= TIMEOUT_MONITORING_CHECKS

rdp_payload(r) ==
    [ip |-> inp[r].ip, port |-> RDP_PORT, username |-> "Administrator",
     password |-> inp[r].rdp_password]

InitialResult ==
    [status |-> INSTALL_STATUS_FAILED, error |-> Null, rdp_info |-> Null,
     boot_mode |-> "unknown"]

NoInput ==
    [ip |-> "", os_code |-> "", rdp_password |-> "", source |-> "",
     linked |-> FALSE]

IPs == {"10.0.0.1", "10.0.0.2"}

\* the install requests the front-ends hand to run r
Requests(r) ==
    {[ip |-> a, os_code |-> "w10pro", rdp_password |-> "Passw0rd",
      source |-> s, linked |-> l] :
        a \in (IF r = 1 THEN {"10.0.0.1"} ELSE IPs),
        s \in {"telegram", "api"}, l \in BOOLEAN}

\* the front-ends hand every request to one run
OneRun == [r \in Runs |-> IF r = 1 THEN Requests(r) ELSE {}]

Goto(r, p) == pc' = [pc EXCEPT ![r] = p]

\* an exception that leaves the try body: control passes to the except clause
Raise(r, e) ==
    /\ Goto(r, "except_status")
    /\ error' = [error EXCEPT ![r] = e]

\* InstallHandler.install: the chat front-end creates the task
\* lines 100-101 and 441: the key of the registry is f"{telegram_id}_{ip}";
\* there is one user, whose private chat has the user's id, so the address
\* stands for the key
task_id(telegram_id, ip) == ip

\* lines 39-101, install: the task is created and stored in the registry under
\* the key of the user and the address, whatever the registry held there
StartTelegram(r) ==
    /\ process = "running"
    /\ pc[r] = "idle"
    /\ \E q \in offered[r] :
        /\ q.source = "telegram"
        /\ inp' = [inp EXCEPT ![r] = q]
        /\ active_installations' = [active_installations EXCEPT
                                      ![task_id(OWNER, q.ip)] = r]
    /\ Goto(r, "create")
    /\ UNCHANGED <<now, stalls, dbFailures, stats, install_id, envVars,
                   ledgerVars, sshVars, localVars, histVars,
                   attempted, accepted, staging>>

\* app.py start_installation: the API front-end inserts a record of its own,
\* answers with that record's id and adds process_installation as a
\* background task; a failed insert is answered with HTTP 500
StartApi(r) ==
    /\ process = "running"
    /\ pc[r] = "idle"
    /\ \E q \in offered[r], ok \in DbOutcomes, logok \in DbOutcomes :
        /\ q.source = "api"
        /\ ok \/ logok
        /\ dbFailures' = IF ok /\ logok THEN dbFailures ELSE dbFailures + 1
        /\ IF ok
           THEN /\ installations' =
                    (nextId :> NewInstallation(OWNER, q, now)) @@ installations
                /\ logs' = add_log((nextId :> <<>>) @@ logs, nextId,
                                   <<"Installation started">>, logok)
                /\ nextId' = nextId + 1
                /\ inp' = [inp EXCEPT ![r] = q]
                /\ accepted' = [accepted EXCEPT ![r] = nextId]
                /\ Goto(r, "create")
           ELSE UNCHANGED <<installations, logs, nextId, inp, pc, accepted>>
    /\ UNCHANGED <<now, stalls, stats, install_id, envVars,
                   sshVars, localVars, histVars,
                   attempted, active_installations, staging>>

\* lines 113-140: the locals, then create_installation; an empty id ends the
\* run with a failure result and no ledger write
CreateInstallation(r) ==
    /\ pc[r] = "create"
    /\ \E ok \in DbOutcomes, logok \in DbOutcomes :
        /\ ok \/ logok
        /\ dbFailures' = IF ok /\ logok THEN dbFailures ELSE dbFailures + 1
        /\ IF ok
           THEN /\ installations' =
                    (nextId :> NewInstallation(OWNER, inp[r], now)) @@ installations
                /\ logs' = add_log((nextId :> <<>>) @@ logs, nextId,
                                   <<"Installation started">>, logok)
                /\ nextId' = nextId + 1
                /\ install_id' = [install_id EXCEPT ![r] = nextId]
                /\ written' = [written EXCEPT
                                 ![r] = Append(@, INSTALL_STATUS_STARTING)]
                /\ Goto(r, "notify_started")
                /\ UNCHANGED <<result_data, returned>>
           ELSE /\ result_data' = [result_data EXCEPT
                    ![r].error = Some("Failed to create installation record")]
                /\ returned' = [returned EXCEPT
                                  ![r] = Some(INSTALL_STATUS_FAILED)]
                /\ Goto(r, "finally")
                /\ UNCHANGED <<installations, logs, nextId, install_id, written>>
    /\ UNCHANGED <<now, stalls, stats, inp, envVars, sshVars, error, specs,
                   boot_mode, monitoring_start, consecutive_closed_count,
                   notified, histRest,
                   frontVars>>

\* lines 143-148: notify_installation_started, then ssh = SSHManager()
NotifyStarted(r) ==
    /\ pc[r] = "notify_started"
    /\ \E o \in SendOutcomes(r, TRUE) :
        /\ notified' = Delivered(r, "started", o)
        /\ attempted' = Attempted(r, "started", o)
        /\ IF o = "Exception"
           THEN /\ Raise(r, "send raised")
                /\ UNCHANGED ssh
           ELSE /\ Goto(r, "status_connecting")
                /\ ssh' = [ssh EXCEPT ![r] = TRUE]
                /\ UNCHANGED error
    /\ UNCHANGED <<now, stalls, dbFailures, stats, inp, install_id, envVars,
                   ledgerVars, connections, openSessions, specs, boot_mode,
                   monitoring_start, consecutive_closed_count, result_data,
                   returned, written, histRest,
                   accepted, active_installations, staging>>

\* faulty variant of PhaseAt: the monitoring phase is never written
PhaseAtNoMonitoring(p) ==
    CASE p = "status_connecting" -> INSTALL_STATUS_CONNECTING
      [] p = "status_checking" -> INSTALL_STATUS_CHECKING
      [] p = "status_preparing" -> INSTALL_STATUS_PREPARING
      [] p = "status_installing" -> INSTALL_STATUS_INSTALLING
      [] p = "status_monitoring" -> INSTALL_STATUS_INSTALLING

\* faulty variant of PhaseAt: the checking and preparing phases exchanged
PhaseAtExchanged(p) ==
    CASE p = "status_connecting" -> INSTALL_STATUS_CONNECTING
      [] p = "status_checking" -> INSTALL_STATUS_PREPARING
      [] p = "status_preparing" -> INSTALL_STATUS_CHECKING
      [] p = "status_installing" -> INSTALL_STATUS_INSTALLING
      [] p = "status_monitoring" -> INSTALL_STATUS_MONITORING

\* the non-terminal phase each update_status call of the try body writes
\* (lines 151, 188, 263, 298, 325)
PhaseAt(p) ==
    CASE p = "status_connecting" -> INSTALL_STATUS_CONNECTING
      [] p = "status_checking" -> INSTALL_STATUS_CHECKING
      [] p = "status_preparing" -> INSTALL_STATUS_PREPARING
      [] p = "status_installing" -> INSTALL_STATUS_INSTALLING
      [] p = "status_monitoring" -> INSTALL_STATUS_MONITORING

\* the text each update_step call writes (lines 152, 189, 264, 299, 326)
StepAt(r, p) ==
    CASE p = "step_connecting" -> <<"Connecting to ", inp[r].ip>>
      [] p = "step_checking" -> <<"Checking system specifications">>
      [] p = "step_preparing" -> <<"Preparing installation">>
      [] p = "step_installing" -> <<"Installing Windows">>
      [] p = "step_monitoring" ->
            <<"Monitoring installation on port ", MONITORING_PORT>>

\* the step each notify_installation_progress call passes (lines 265, 300, 327)
ProgressAt(p) ==
    CASE p = "notify_preparing" -> "Preparing"
      [] p = "notify_installing" -> "Installing Windows"
      [] p = "notify_monitoring" -> "Monitoring progress"

\* the statement that follows each await of the try body
After(p) ==
    CASE p = "status_connecting" -> "step_connecting"
      [] p = "step_connecting" -> "connect"
      [] p = "status_checking" -> "step_checking"
      [] p = "step_checking" -> "check_system_specs"
      [] p = "status_preparing" -> "step_preparing"
      [] p = "step_preparing" -> "notify_preparing"
      [] p = "notify_preparing" -> "prepare_installation"
      [] p = "status_installing" -> "step_installing"
      [] p = "step_installing" -> "notify_installing"
      [] p = "notify_installing" -> "start_installation"
      [] p = "status_monitoring" -> "step_monitoring"
      [] p = "step_monitoring" -> "notify_monitoring"
      [] p = "notify_monitoring" -> "sleep_start"

StatusPcs == {"status_connecting", "status_checking", "status_preparing",
              "status_installing", "status_monitoring"}
StepPcs == {"step_connecting", "step_checking", "step_preparing",
            "step_installing", "step_monitoring"}
ProgressPcs == {"notify_preparing", "notify_installing", "notify_monitoring"}

\* await self.install_db.update_status(install_id, <phase>)
UpdatePhase(r) ==
    /\ pc[r] \in StatusPcs
    /\ update_status(r, PhaseAt(pc[r]), NoExtra)
    /\ Goto(r, After(pc[r]))
    /\ UNCHANGED <<now, stalls, stats, inp, install_id, envVars, nextId,
                   sshVars, localVars, notified, histRest,
                   frontVars>>

\* await self.install_db.update_step(install_id, <step>)
UpdateStep(r) ==
    /\ pc[r] \in StepPcs
    /\ update_step(r, StepAt(r, pc[r]))
    /\ Goto(r, After(pc[r]))
    /\ UNCHANGED <<now, stalls, stats, inp, install_id, envVars, nextId,
                   sshVars, localVars, histVars,
                   frontVars>>

\* await self.notification_service.notify_installation_progress(...)
NotifyProgress(r) ==
    /\ pc[r] \in ProgressPcs
    /\ \E o \in SendOutcomes(r, IsMajorStep(ProgressAt(pc[r]))) :
        /\ notified' = Delivered(r, ProgressAt(pc[r]), o)
        /\ attempted' = Attempted(r, ProgressAt(pc[r]), o)
        /\ IF o = "Exception"
           THEN Raise(r, "send raised")
           ELSE Goto(r, After(pc[r])) /\ UNCHANGED error
    /\ UNCHANGED <<now, stalls, dbFailures, stats, inp, install_id, envVars,
                   ledgerVars, sshVars, specs, boot_mode, monitoring_start,
                   consecutive_closed_count, result_data, returned, written,
                   histRest,
                   accepted, active_installations, staging>>

\* faulty variant of Fail: the failed statement is entered again
Fail_retrying(r, e) ==
    /\ Goto(r, pc[r])
    /\ error' = [error EXCEPT ![r] = e]

\* an explicit failure branch: the locals it sets before its three awaits
Fail(r, e) ==
    /\ Goto(r, "failed_status")
    /\ error' = [error EXCEPT ![r] = e]

\* lines 154-171: ssh.connect; a failure takes the failure branch
Connect(r) ==
    /\ pc[r] = "connect"
    /\ \E exc \in Host.connects :
        /\ connectCause' = [connectCause EXCEPT ![r] = exc]
        /\ IF exc = "Connected"
           THEN /\ connections' =
                    [connections EXCEPT
                        ![SSHManager(r)] = (inp[r].ip :> r) @@ @]
                /\ openSessions' = [openSessions EXCEPT ![r] = @ \cup {inp[r].ip}]
                /\ touched' = [touched EXCEPT
                                 ![r] = @ \cup {r} \cup SessionOwners(r)]
                /\ Goto(r, "status_checking")
                /\ UNCHANGED error
           ELSE /\ Fail(r, connect_error(exc))
                /\ UNCHANGED <<connections, openSessions, touched>>
    /\ remoteOps' = [remoteOps EXCEPT ![r] = Append(@, "connect")]
    /\ UNCHANGED <<now, stalls, dbFailures, stats, inp, install_id, envVars,
                   ledgerVars, ssh, specs, boot_mode, monitoring_start,
                   consecutive_closed_count, result_data, returned, written,
                   notified, probeVars, lastElapsed, cleanupRan, replies,
                   frontVars>>

\* lines 191-246: ssh.check_system_specs, then the three checks in order
CheckSystemSpecs(r) ==
    /\ pc[r] = "check_system_specs"
    /\ \E p \in Host.probes :
        LET full == check_system_specs(Connected(r), p)
            sp == SpecsRead(full)
        IN  /\ specs' = [specs EXCEPT ![r] = sp]
            /\ replies' = Kept(r, "specs", p, full)
            /\ IF spec_error(sp) # Null
               THEN /\ Fail(r, spec_error(sp)[1])
                    /\ UNCHANGED <<boot_mode, result_data>>
               ELSE /\ boot_mode' = [boot_mode EXCEPT ![r] = sp.boot_mode]
                    /\ result_data' = [result_data EXCEPT
                                         ![r].boot_mode = sp.boot_mode]
                    /\ Goto(r, "status_preparing")
                    /\ UNCHANGED error
    /\ remoteOps' = [remoteOps EXCEPT ![r] = Append(@, "check_system_specs")]
    /\ touched' = [touched EXCEPT ![r] = @ \cup SessionOwners(r)]
    /\ UNCHANGED <<now, stalls, dbFailures, stats, inp, install_id, envVars,
                   ledgerVars, sshVars, monitoring_start,
                   consecutive_closed_count, returned, written, notified,
                   probeVars, lastElapsed, cleanupRan, connectCause,
                   frontVars>>

\* lines 267-281: ssh.prepare_installation
\* ssh_manager.py 219-236 with settings.py 201-204: CLEANUP_OLD removes
\* /root/windows_install with whatever an earlier preparation left there,
\* CREATE_DIR makes it anew and DOWNLOAD_SCRIPT writes reinstall.sh into it;
\* the directory then holds this run's script or none
staged(dir, ip, r, connected, p) ==
    IF ~connected THEN dir
    ELSE [dir EXCEPT ![ip] = IF p.present THEN r ELSE 0]

PrepareInstallation(r) ==
    /\ pc[r] = "prepare_installation"
    /\ \E p \in Host.preparations :
        LET res == prepare_installation(Connected(r), p)
        IN  /\ replies' = Kept(r, "prepare", p, res)
            /\ IF res.success
               THEN Goto(r, "status_installing") /\ UNCHANGED error
               ELSE Fail(r, res.error)
            /\ staging' = staged(staging, inp[r].ip, r, Connected(r), p)
    /\ remoteOps' = [remoteOps EXCEPT ![r] = Append(@, "prepare_installation")]
    /\ touched' = [touched EXCEPT ![r] = @ \cup SessionOwners(r)]
    /\ UNCHANGED <<now, stalls, dbFailures, stats, inp, install_id, envVars,
                   ledgerVars, sshVars, specs, boot_mode, monitoring_start,
                   consecutive_closed_count, result_data, returned, written,
                   notified, probeVars, lastElapsed, cleanupRan, connectCause,
                   attempted, accepted, active_installations>>

\* lines 302-316: ssh.start_installation
StartInstallation(r) ==
    /\ pc[r] = "start_installation"
    /\ \E o \in Host.installs :
        LET res == start_installation(Connected(r), o)
        IN  /\ replies' = Kept(r, "install", o, res)
            /\ IF res.success
               THEN Goto(r, "status_monitoring") /\ UNCHANGED error
               ELSE Fail(r, res.message)
    /\ remoteOps' = [remoteOps EXCEPT ![r] = Append(@, "start_installation")]
    /\ touched' = [touched EXCEPT ![r] = @ \cup SessionOwners(r)]
    /\ UNCHANGED <<now, stalls, dbFailures, stats, inp, install_id, envVars,
                   ledgerVars, sshVars, specs, boot_mode, monitoring_start,
                   consecutive_closed_count, result_data, returned, written,
                   notified, probeVars, lastElapsed, cleanupRan, connectCause,
                   frontVars>>

\* line 330: the sleep before monitoring, then lines 333-337
SleepStart(r) ==
    /\ pc[r] = "sleep_start"
    /\ now' = now + TIMEOUT_MONITORING_START
    /\ monitoring_start' = [monitoring_start EXCEPT ![r] = now']
    /\ consecutive_closed_count' = [consecutive_closed_count EXCEPT ![r] = 0]
    /\ Goto(r, "loop_check")
    /\ UNCHANGED <<stalls, dbFailures, stats, inp, install_id, envVars,
                   ledgerVars, sshVars, error, specs, boot_mode, result_data,
                   returned, histVars,
                   frontVars>>

\* lines 340-341: the deadline test at the top of every iteration
LoopCheck(r) ==
    /\ pc[r] = "loop_check"
    /\ lastElapsed' = [lastElapsed EXCEPT ![r] = now - monitoring_start[r]]
    /\ IF deadline_passed(now, monitoring_start[r])
       THEN Goto(r, "timeout_status")
       ELSE Goto(r, "check_port")
    /\ UNCHANGED <<now, stalls, dbFailures, stats, inp, install_id, envVars,
                   ledgerVars, sshVars, localVars, written, notified,
                   remoteOps, probeVars, cleanupRan, connectCause, hostVars,
                   frontVars>>

\* lines 367-377: one probe of the monitoring port and the counter update
CheckPort(r) ==
    /\ pc[r] \in {"check_port", "check_port_cancelled"}
    /\ \E port_open \in (IF pc[r] = "check_port" THEN BOOLEAN ELSE {FALSE}) :
        LET count == next_closed_count(consecutive_closed_count[r], port_open)
        IN  /\ consecutive_closed_count' =
                [consecutive_closed_count EXCEPT ![r] = count]
            /\ probeTail' = [probeTail EXCEPT
                    ![r] = IF port_open THEN 0
                           ELSE IF @ < TIMEOUT_MONITORING_CHECKS + 1 THEN @ + 1
                           ELSE @]
            /\ probeCount' = [probeCount EXCEPT ![r] = @ + 1]
            /\ seenOpen' = [seenOpen EXCEPT ![r] = @ \/ port_open]
            /\ IF installation_complete(count, port_open)
               THEN Goto(r, "completed_status")
               ELSE Goto(r, "loop_sleep")
    /\ UNCHANGED <<now, stalls, dbFailures, stats, inp, install_id, envVars,
                   ledgerVars, sshVars, error, specs, boot_mode,
                   monitoring_start, result_data, returned, written, notified,
                   remoteOps, lastElapsed, cleanupRan, connectCause, hostVars,
                   frontVars>>

\* line 379: the sleep between two probes
LoopSleep(r) ==
    /\ pc[r] = "loop_sleep"
    /\ now' = now + TIMEOUT_MONITORING_INTERVAL + lag
    /\ Goto(r, "loop_check")
    /\ UNCHANGED <<stalls, dbFailures, stats, inp, install_id, envVars,
                   ledgerVars, sshVars, localVars, histVars,
                   frontVars>>

\* the terminal update_status call of each branch (lines 166, 205, 223, 238,
\* 276, 311, 353, 400) and of the except clause (lines 424-425)
TerminalStatus(r) ==
    /\ pc[r] \in {"failed_status", "timeout_status", "completed_status",
                   "except_status"}
    /\ CASE pc[r] = "failed_status" ->
                /\ update_status(r, INSTALL_STATUS_FAILED, ErrorExtra(error[r]))
                /\ Goto(r, "failed_stats")
         [] pc[r] = "timeout_status" ->
                /\ update_status(r, INSTALL_STATUS_TIMEOUT, NoExtra)
                /\ Goto(r, "timeout_stats")
         [] pc[r] = "completed_status" ->
                /\ update_status(r, INSTALL_STATUS_COMPLETED,
                                 CompletedExtra(rdp_payload(r), boot_mode[r]))
                /\ Goto(r, "completed_stats")
         [] pc[r] = "except_status" ->
                /\ IF install_id[r] # 0
                   THEN update_status(r, INSTALL_STATUS_FAILED,
                                      ErrorExtra(error[r]))
                   ELSE UNCHANGED <<installations, logs, written, dbFailures>>
                /\ Goto(r, "except_stats")
    /\ UNCHANGED <<now, stalls, stats, inp, install_id, envVars, nextId,
                   sshVars, localVars, notified, histRest,
                   frontVars>>

\* await self.user_db.update_install_stats(user_id, <success>)
UpdateStats(r) ==
    /\ pc[r] \in {"failed_stats", "timeout_stats", "completed_stats",
                   "except_stats"}
    /\ update_install_stats(pc[r] = "completed_stats")
    /\ Goto(r, CASE pc[r] = "failed_stats" -> "failed_notify"
                  [] pc[r] = "timeout_stats" -> "timeout_notify"
                  [] pc[r] = "completed_stats" -> "completed_notify"
                  [] pc[r] = "except_stats" -> "except_notify")
    /\ UNCHANGED <<now, stalls, inp, install_id, envVars, ledgerVars,
                   sshVars, localVars, histVars,
                   frontVars>>

\* result_data and the returned status of each branch
BranchResult(r, p) ==
    CASE p = "failed_notify" ->
            [result_data[r] EXCEPT !.error = Some(error[r])]
      [] p = "except_notify" ->
            [result_data[r] EXCEPT !.error = Some(error[r])]
      [] p = "timeout_notify" ->
            [result_data[r] EXCEPT !.status = INSTALL_STATUS_TIMEOUT,
                                   !.rdp_info = Some(rdp_payload(r))]
      [] p = "completed_notify" ->
            [result_data[r] EXCEPT !.status = INSTALL_STATUS_COMPLETED,
                                   !.rdp_info = Some(rdp_payload(r))]

NotifyKind(p) ==
    CASE p = "failed_notify" -> "failed"
      [] p = "except_notify" -> "failed"
      [] p = "timeout_notify" -> "timeout"
      [] p = "completed_notify" -> "completed"

\* the last await of each branch, then its result_data and return; a send
\* that raises in the try body enters the except clause, one that raises in
\* the except clause leaves process_installation as an exception
NotifyResult(r) ==
    /\ pc[r] \in {"failed_notify", "timeout_notify", "completed_notify",
                   "except_notify"}
    /\ \E o \in SendOutcomes(r, TRUE) :
        /\ notified' = Delivered(r, NotifyKind(pc[r]), o)
        /\ attempted' = Attempted(r, NotifyKind(pc[r]), o)
        /\ IF o # "Exception"
           THEN /\ result_data' = [result_data EXCEPT
                                     ![r] = BranchResult(r, pc[r])]
                /\ returned' = [returned EXCEPT
                                  ![r] = Some(BranchResult(r, pc[r]).status)]
                /\ Goto(r, "finally")
                /\ UNCHANGED error
           ELSE IF pc[r] = "except_notify"
           THEN /\ returned' = [returned EXCEPT ![r] = Some("raised")]
                /\ Goto(r, "finally")
                /\ UNCHANGED <<result_data, error>>
           ELSE /\ Raise(r, "send raised")
                /\ UNCHANGED <<result_data, returned>>
    /\ UNCHANGED <<now, stalls, dbFailures, stats, inp, install_id, envVars,
                   ledgerVars, sshVars, specs, boot_mode, monitoring_start,
                   consecutive_closed_count, written, histRest,
                   accepted, active_installations, staging>>

\* faulty variant of cleanup: no session is closed
cleanup_skipped(conns, open, raised) ==
    [connections |-> conns, open |-> open]

\* SSHManager.cleanup: disconnect closes every session of the dict, whichever
\* run opened it; the entry is deleted unless wait_closed raised, which
\* disconnect logs and swallows
cleanup(conns, open, raised) ==
    [connections |-> IF raised THEN conns ELSE NoSessions,
     open |-> [s \in Runs |->
                open[s] \ {ip \in DOMAIN conns : conns[ip] = s}]]

\* lines 433-445: the finally clause
\* lines 437-445: a run from the chat deletes the entry under its key when
\* there is one, whichever task the entry holds
unregister(registry, source, key) ==
    IF source = "telegram" /\ registry[key] # 0
    THEN [registry EXCEPT ![key] = 0]
    ELSE registry

Finally(r) ==
    /\ pc[r] = "finally"
    /\ IF ssh[r]
       THEN \E raised \in (IF faults THEN BOOLEAN ELSE {FALSE}) :
            LET conns == connections[SSHManager(r)]
                after == cleanup(conns, openSessions, raised)
            IN
            /\ openSessions' = after.open
            /\ connections' = [connections EXCEPT
                                 ![SSHManager(r)] = after.connections]
            /\ touched' = [touched EXCEPT
                             ![r] = @ \cup {conns[ip] : ip \in DOMAIN conns}]
            /\ cleanupRan' = [cleanupRan EXCEPT ![r] = TRUE]
       ELSE UNCHANGED <<openSessions, connections, cleanupRan, touched>>
    /\ active_installations' =
           unregister(active_installations, inp[r].source,
                      task_id(OWNER, inp[r].ip))
    /\ Goto(r, "done")
    /\ UNCHANGED <<now, stalls, dbFailures, stats, inp, install_id, envVars,
                   ledgerVars, ssh, localVars, written, notified, remoteOps,
                   probeVars, lastElapsed, connectCause, replies,
                   attempted, accepted, staging>>

----------------------------------------------------------------------------
(* Environment *)

\* cleanup_stuck_installations, run by the periodic job, by the admin
\* command and at start-up: one UPDATE over the whole table
CleanupStuckInstallations ==
    /\ \E ok \in DbOutcomes :
        /\ installations' = IF ok THEN Sweep(installations, now)
                            ELSE installations
        /\ dbFailures' = IF ok THEN dbFailures ELSE dbFailures + 1
    /\ UNCHANGED <<now, stalls, stats, pc, inp, install_id, envVars, logs,
                   nextId, sshVars, localVars, histVars,
                   frontVars>>

\* time passes while some task waits for the ledger, the chat API or the
\* host; explored on the loaded event loop, where the monitoring loop is
\* short, and in the behaviours without a failed query
Stall ==
    /\ stalls < MaxStalls
    /\ dbFailures = 0
    /\ lag # 0
    /\ \E r \in Runs : pc[r] \notin {"idle", "done"}
    /\ stalls' = stalls + 1
    /\ now' = now + StallSeconds
    /\ UNCHANGED <<dbFailures, stats, pc, inp, install_id, envVars,
                   ledgerVars, sshVars, localVars, histVars,
                   frontVars>>

\* the three query methods of ConnectionManager, which share one retry loop
QueryKinds == {"execute_query", "fetch_one", "fetch_all"}

\* no query yet: attempt is the local counter of the loop, calls counts the
\* queries made, events is the history of the attempts and sleeps of the
\* query in progress
NoQuery ==
    [kind |-> "", state |-> "idle", attempt |-> 0, calls |-> 0,
     started |-> 0, events |-> <<>>]

\* faulty variant of after_failure: the test lets one more attempt through
after_failure_lenient(attempt) ==
    IF attempt > DB_RETRY_ATTEMPTS THEN "raised" ELSE "sleeping"

\* the except clause after attempt += 1: DatabaseError is raised when the
\* counter has reached max_attempts, else the loop sleeps
after_failure(attempt) ==
    IF attempt >= DB_RETRY_ATTEMPTS THEN "raised" ELSE "sleeping"

\* while attempt < max_attempts: a loop that is left at its top returns None
loop_test(attempt) ==
    IF attempt < DB_RETRY_ATTEMPTS THEN "running" ELSE "returned"

\* execute_query, fetch_one or fetch_all is called: attempt = 0, loop test
BeginQuery ==
    /\ query.state \in {"idle", "returned", "raised"}
    /\ query.calls < MaxQueries
    /\ \E k \in QueryKinds :
        query' = [kind |-> k, state |-> loop_test(0), attempt |-> 0,
                  calls |-> query.calls + 1, started |-> now,
                  events |-> <<>>]
    /\ UNCHANGED <<now, stalls, dbFailures, stats, pc, inp, install_id,
                   faults, lag, offered, hosts, detail, bot, process, logRows,
                   fetched, resolved, ledgerVars, sshVars, localVars,
                   histVars, frontVars>>

\* one pass of the try body: the query succeeds and its result is returned,
\* or it raises and the except clause counts the attempt
AttemptQuery ==
    /\ query.state = "running"
    /\ \E ok \in BOOLEAN :
        query' = IF ok
                 THEN [query EXCEPT !.state = "returned",
                                    !.events = Append(@, "ok")]
                 ELSE [query EXCEPT !.attempt = @ + 1,
                                    !.state = after_failure(query.attempt + 1),
                                    !.events = Append(@, "failed")]
    /\ UNCHANGED <<now, stalls, dbFailures, stats, pc, inp, install_id,
                   faults, lag, offered, hosts, detail, bot, process, logRows,
                   fetched, resolved, ledgerVars, sshVars, localVars,
                   histVars, frontVars>>

\* await asyncio.sleep(delay), then the loop test
RetrySleep ==
    /\ query.state = "sleeping"
    /\ now' = now + DB_RETRY_DELAY
    /\ query' = [query EXCEPT !.state = loop_test(query.attempt),
                              !.events = Append(@, "sleep")]
    /\ UNCHANGED <<stalls, dbFailures, stats, pc, inp, install_id,
                   faults, lag, offered, hosts, detail, bot, process, logRows,
                   fetched, resolved, ledgerVars, sshVars, localVars,
                   histVars, frontVars>>

\* add_log called for one of two installations
AddLog ==
    /\ Len(logRows) < MaxLogRows
    /\ \E id \in {1, 2} : logRows' = add_log_row(logRows, id, now)
    /\ UNCHANGED <<now, stalls, dbFailures, stats, pc, inp, install_id,
                   faults, lag, offered, hosts, detail, bot, process, fetched,
                   resolved, query, ledgerVars, sshVars,
                   localVars, histVars,
                   frontVars>>

\* the clock of datetime.now() advances between two calls
Tick ==
    /\ now < MaxLogTime
    /\ now' = now + 1
    /\ UNCHANGED <<stalls, dbFailures, stats, pc, inp, install_id, envVars,
                   ledgerVars, sshVars, localVars, histVars,
                   frontVars>>

\* get_logs called for one installation with some limit
GetLogs ==
    /\ \E id \in {1, 2}, limit \in 1..3 :
        \E res \in get_logs(logRows, id, limit) :
            fetched' = Some([install_id |-> id, limit |-> limit,
                             table |-> logRows, logs |-> res])
    /\ UNCHANGED <<now, stalls, dbFailures, stats, pc, inp, install_id,
                   faults, lag, offered, hosts, detail, bot, process, logRows,
                   resolved, query, ledgerVars, sshVars,
                   localVars, histVars,
                   frontVars>>

\* Settings.get_image_url called with some OS code and some boot mode
GetImageUrl ==
    /\ \E os_code \in OsSelectors, mode \in BootModes :
        resolved' = resolved \cup
            {[os_code |-> os_code, boot_mode |-> mode,
              url |-> get_image_url(os_code, mode)]}
    /\ UNCHANGED <<now, stalls, dbFailures, stats, pc, inp, install_id,
                   faults, lag, offered, hosts, detail, bot, process, logRows,
                   fetched, query, ledgerVars, sshVars, localVars, histVars,
                   frontVars>>

\* cleanup_old_installations, run at start-up and by the admin command: one
\* DELETE over the whole table (what becomes of the log rows of a deleted
\* record is left to the schema, which the source does not hold)
CleanupOldInstallations ==
    /\ \E days \in RetentionDays, ok \in DbOutcomes :
        /\ installations' = IF ok THEN Retained(installations, now, days)
                            ELSE installations
        /\ dbFailures' = IF ok THEN dbFailures ELSE dbFailures + 1
    /\ UNCHANGED <<now, stalls, stats, pc, inp, install_id, envVars, logs,
                   nextId, sshVars, localVars, histVars,
                   frontVars>>

\* days pass: the process is kept, or is started again, days later
DaysPass ==
    /\ \E d \in {1, CLEANUP_OLD_INSTALLS_DAYS} :
        /\ now + d * SecondsPerDay <= MaxDays * SecondsPerDay
        /\ now' = now + d * SecondsPerDay
    /\ UNCHANGED <<stalls, dbFailures, stats, pc, inp, install_id, envVars,
                   ledgerVars, sshVars, localVars, histVars,
                   frontVars>>

\* the variables that the steps of the process as a whole leave alone
settingVars == <<faults, lag, offered, hosts, detail, bot, readVars>>

\* a signal stops the process: the bot leaves its polling loop (main.py
\* lines 292-341) and stops its updater, uvicorn stops serving; no run is
\* started from here on, the runs in progress go on
Shutdown ==
    /\ process = "running"
    /\ process' = "stopping"
    /\ UNCHANGED <<now, stalls, dbFailures, stats, pc, inp, install_id,
                   settingVars, ledgerVars, sshVars, localVars, histVars,
                   frontVars>>

\* shutdown_tasks of the bot and the shutdown half of lifespan:
\* close_database and nothing else; no task is cancelled and no session is
\* closed here (the runs never look at the result of a ledger query, so what
\* their queries do afterwards does not change their path)
ShutdownTasks ==
    /\ process = "stopping"
    /\ process' = "closed"
    /\ UNCHANGED <<now, stalls, dbFailures, stats, pc, inp, install_id,
                   settingVars, ledgerVars, sshVars, localVars, histVars,
                   frontVars>>

\* faulty variant of cancel_target: a pending task is dropped where it waits
cancel_dropped(p) == IF p = "idle" THEN p ELSE "done"

\* where CancelledError, raised at the await a run waits at, takes the run:
\* it is no Exception, so the except clause is passed over and the finally
\* clause (line 433) runs; the bare except of check_port (ssh_manager.py
\* line 320) catches it, the probe then counts as closed and the run goes on
cancel_target(p) ==
    IF p \in {"idle", "done"} THEN p
    ELSE IF p = "check_port" THEN "check_port_cancelled"
    ELSE "finally"

\* asyncio.run (main.py line 373, uvicorn.run at app.py line 1654) returns
\* only after it has cancelled every task that is still pending
CancelTasks ==
    /\ process = "closed"
    /\ process' = "cancelling"
    /\ pc' = [r \in Runs |-> cancel_target(pc[r])]
    /\ returned' = [r \in Runs |->
                      IF cancel_target(pc[r]) = "finally" /\ pc[r] # "finally"
                      THEN Some("cancelled")
                      ELSE returned[r]]
    /\ UNCHANGED <<now, stalls, dbFailures, stats, inp, install_id,
                   settingVars, ledgerVars, sshVars, error, specs, boot_mode,
                   monitoring_start, consecutive_closed_count, result_data,
                   histVars,
                   frontVars>>

\* asyncio.run waits for the cancelled tasks, closes the loop and returns:
\* the process exits
Exit ==
    /\ process = "cancelling"
    /\ \A r \in Runs : pc[r] \in {"idle", "done"}
    /\ process' = "exited"
    /\ UNCHANGED <<now, stalls, dbFailures, stats, pc, inp, install_id,
                   settingVars, ledgerVars, sshVars, localVars, histVars,
                   frontVars>>

----------------------------------------------------------------------------

\* a record written by an earlier deployment with another RDP port
LegacyInstallation ==
    [user_id |-> OWNER,
     status |-> INSTALL_STATUS_COMPLETED,
     start_time |-> 0,
     end_time |-> Some(0),
     ip |-> "10.0.0.9",
     os_code |-> "w10pro",
     boot_mode |-> "legacy",
     current_step |-> <<"Installation complete">>,
     error |-> Null,
     rdp_info |-> Some([ip |-> "10.0.0.9", port |-> 3389,
                        username |-> "Administrator",
                        password |-> "OldPassw0rd"])]

InitCommon ==
    /\ now = 0
    /\ dbFailures = 0
    /\ bot \in BOOLEAN
    /\ stats = [total_installs |-> 0, success_installs |-> 0,
                failed_installs |-> 0]
    /\ installations = (1 :> LegacyInstallation)
    /\ logs = (1 :> <<>>)
    /\ nextId = 2
    /\ pc = [r \in Runs |-> "idle"]
    /\ inp = [r \in Runs |-> NoInput]
    /\ install_id = [r \in Runs |-> 0]
    /\ ssh = [r \in Runs |-> FALSE]
    /\ connections = [r \in Runs |-> NoSessions]
    /\ openSessions = [r \in Runs |-> {}]
    /\ error = [r \in Runs |-> ""]
    /\ specs = [r \in Runs |-> DefaultSpecs]
    /\ boot_mode = [r \in Runs |-> "unknown"]
    /\ monitoring_start = [r \in Runs |-> 0]
    /\ consecutive_closed_count = [r \in Runs |-> 0]
    /\ result_data = [r \in Runs |-> InitialResult]
    /\ returned = [r \in Runs |-> Null]
    /\ written = [r \in Runs |-> <<>>]
    /\ notified = [r \in Runs |-> <<>>]
    /\ remoteOps = [r \in Runs |-> <<>>]
    /\ probeTail = [r \in Runs |-> 0]
    /\ probeCount = [r \in Runs |-> 0]
    /\ seenOpen = [r \in Runs |-> FALSE]
    /\ lastElapsed = [r \in Runs |-> 0]
    /\ cleanupRan = [r \in Runs |-> FALSE]
    /\ connectCause = [r \in Runs |-> ""]
    /\ process = "running"
    /\ replies = [r \in Runs |-> NoReplies]
    /\ touched = [r \in Runs |-> {}]
    /\ logRows = <<>>
    /\ fetched = Null
    /\ resolved = {}
    /\ query = NoQuery
    /\ attempted = [r \in Runs |-> {}]
    /\ accepted = [r \in Runs |-> 0]
    /\ active_installations = [ip \in IPs |-> 0]
    /\ staging = [ip \in IPs |-> 0]

\* one run, a ledger whose queries commit, sends that at worst fail with a
\* TelegramError
Init ==
    /\ InitCommon
    /\ faults = FALSE
    /\ stalls = 0
    /\ lag \in {0, LagSeconds}
    /\ offered = OneRun
    /\ hosts = "standard"
    /\ detail = FALSE

\* one run on a loaded event loop, with failing ledger queries, sends that
\* raise and sessions whose close raises
InitFaults ==
    /\ InitCommon
    /\ faults = TRUE
    /\ stalls = 0
    /\ lag = LagSeconds
    /\ offered = OneRun
    /\ hosts = "standard"
    /\ detail = FALSE

Next ==
    \/ \E r \in Runs :
        \/ StartTelegram(r)
        \/ StartApi(r)
        \/ CreateInstallation(r)
        \/ NotifyStarted(r)
        \/ UpdatePhase(r)
        \/ UpdateStep(r)
        \/ NotifyProgress(r)
        \/ Connect(r)
        \/ CheckSystemSpecs(r)
        \/ PrepareInstallation(r)
        \/ StartInstallation(r)
        \/ SleepStart(r)
        \/ LoopCheck(r)
        \/ CheckPort(r)
        \/ LoopSleep(r)
        \/ TerminalStatus(r)
        \/ UpdateStats(r)
        \/ NotifyResult(r)
        \/ Finally(r)
    \/ CleanupStuckInstallations
    \/ Stall

Spec == Init /\ [][Next]_vars

SpecFaults == InitFaults /\ [][Next]_vars

\* the log table on its own: rows are added, time passes, get_logs is called
InitLogs ==
    /\ InitCommon
    /\ faults = FALSE
    /\ stalls = 0
    /\ lag = 0
    /\ offered = [r \in Runs |-> {}]
    /\ hosts = "standard"
    /\ detail = FALSE

NextLogs ==
    \/ AddLog
    \/ Tick
    \/ GetLogs

SpecLogs == InitLogs /\ [][NextLogs]_vars

\* the retry loop of the ledger queries on its own
NextQuery ==
    \/ BeginQuery
    \/ AttemptQuery
    \/ RetrySleep

SpecQuery == InitLogs /\ [][NextQuery]_vars

\* the image resolution on its own: calls in any order, any number of times
NextImages == GetImageUrl

SpecImages == InitLogs /\ [][NextImages]_vars

\* the steps of one run of process_installation and of its front-end
Run(r) ==
    \/ StartTelegram(r)
    \/ StartApi(r)
    \/ CreateInstallation(r)
    \/ NotifyStarted(r)
    \/ UpdatePhase(r)
    \/ UpdateStep(r)
    \/ NotifyProgress(r)
    \/ Connect(r)
    \/ CheckSystemSpecs(r)
    \/ PrepareInstallation(r)
    \/ StartInstallation(r)
    \/ SleepStart(r)
    \/ LoopCheck(r)
    \/ CheckPort(r)
    \/ LoopSleep(r)
    \/ TerminalStatus(r)
    \/ UpdateStats(r)
    \/ NotifyResult(r)
    \/ Finally(r)

\* the chat front-end hands one request to run 1, the API front-end one
\* request for either address to run 2
TwoRuns ==
    [r \in Runs |->
        IF r = 1 THEN {q \in Requests(r) : q.source = "telegram" /\ ~q.linked}
        ELSE {q \in Requests(r) : q.source = "api" /\ q.linked}]

\* the same with run 2 sent to the second address
TwoAddresses ==
    [r \in Runs |-> {q \in TwoRuns[r] : r = 1 \/ q.ip = "10.0.0.2"}]

\* two runs as concurrent tasks of one event loop, interleaved at their
\* awaits, with monitoring sleeps so long that a loop makes two probes
InitTwo ==
    /\ InitCommon
    /\ bot = FALSE
    /\ faults = FALSE
    /\ stalls = 0
    /\ lag = 2 * LagSeconds
    /\ offered = TwoRuns
    /\ hosts = "few"
    /\ detail = FALSE

NextTwo == \E r \in Runs : Run(r)

SpecTwo == InitTwo /\ [][NextTwo]_vars

\* the chat front-end hands a request to run 1 and, from the same user,
\* a request for either address to run 2, which the API front-end may start
\* instead
ChatRuns ==
    [r \in Runs |->
        {q \in Requests(1) \cup Requests(2) :
            /\ ~q.linked
            /\ r = 1 => (q.source = "telegram" /\ q.ip = "10.0.0.1")}]

\* two /install commands of one user, their tasks interleaved at the awaits
InitChat ==
    /\ InitCommon
    /\ bot = FALSE
    /\ faults = FALSE
    /\ stalls = 0
    /\ lag = 2 * LagSeconds
    /\ offered = ChatRuns
    /\ hosts = "good"
    /\ detail = FALSE

NextChat == \E r \in Runs : Run(r)

SpecChat == InitChat /\ [][NextChat]_vars

\* the event loop runs every task that is ready: an await of a run returns
\* and a sleep of a run ends, so a run that can take its next step takes it
Scheduled == \A r \in Runs : WF_vars(Run(r))

\* the runs of Spec on an event loop that keeps scheduling them
SpecLive == Init /\ [][Next]_vars /\ Scheduled

\* hosts that vary the replies to one of the calls and pass the other calls
ThoroughHosts == {"probes", "preparations", "installs"}

\* one run against every kind of host, with the replies of the host and the
\* results of the manager's calls kept
InitHost ==
    /\ InitCommon
    /\ bot = FALSE
    /\ faults = FALSE
    /\ stalls = 0
    /\ lag = 2 * LagSeconds
    /\ offered = OneRun
    /\ hosts \in ThoroughHosts
    /\ detail = TRUE

NextHost == \E r \in Runs : Run(r)

SpecHost == InitHost /\ [][NextHost]_vars

\* one run and the retention sweep of the ledger, over days
InitRetention ==
    /\ InitCommon
    /\ bot = FALSE
    /\ faults = FALSE
    /\ stalls = 0
    /\ lag = 2 * LagSeconds
    /\ offered = [r \in Runs |->
                    IF r = 1 THEN {q \in Requests(r) : ~q.linked} ELSE {}]
    /\ hosts = "installs_few"
    /\ detail = FALSE

NextRetention ==
    \/ \E r \in Runs : Run(r)
    \/ CleanupOldInstallations
    \/ DaysPass

SpecRetention == InitRetention /\ [][NextRetention]_vars

\* two runs and the shutdown of the process
NextShutdown ==
    \/ \E r \in Runs : Run(r)
    \/ Shutdown
    \/ ShutdownTasks
    \/ CancelTasks
    \/ Exit

\* two runs on hosts that pass every call, so that a shutdown finds them
\* with their sessions open
InitShutdown ==
    /\ InitCommon
    /\ bot = FALSE
    /\ faults = FALSE
    /\ stalls = 0
    /\ lag = 2 * LagSeconds
    /\ offered = TwoAddresses
    /\ hosts = "good"
    /\ detail = FALSE

SpecShutdown == InitShutdown /\ [][NextShutdown]_vars

----------------------------------------------------------------------------
(* Properties *)

Last(w) == w[Len(w)]

IsPrefix(s, t) ==
    /\ Len(s) <= Len(t)
    /\ \A i \in 1..Len(s) : s[i] = t[i]

\* the phases a run wrote before its terminal phase, if it wrote one
NonTerminalPart(w) ==
    IF w # <<>> /\ Last(w) \in TerminalStatuses THEN SubSeq(w, 1, Len(w) - 1)
    ELSE w

Invoked(r, op) == \E i \in 1..Len(remoteOps[r]) : remoteOps[r][i] = op

\* the ledger record of run r
Record(r) == installations[install_id[r]]

FailedPcs == {"failed_status", "failed_stats", "failed_notify"}
TimeoutPcs == {"timeout_status", "timeout_stats", "timeout_notify"}
CompletedPcs == {"completed_status", "completed_stats", "completed_notify"}
EndPcs == {"finally", "done"}

\* C1: the phases a run of process_installation commits to its ledger record
\* are starting, connecting, checking, preparing, installing, monitoring in
\* that order, none skipped, repeated or revisited, followed by at most one
\* terminal phase, after which the run writes no phase.
C1_PhasesInOrder ==
    \A r \in Runs : IsPrefix(NonTerminalPart(written[r]), PhaseOrder)

\* a run wrote all six phases and then completed
C1_Witness ==
    written[1] = PhaseOrder \o <<INSTALL_STATUS_COMPLETED>>

\* C2: once the probe of the monitoring port has failed on two consecutive
\* polls, the run is in its completed branch: it writes completed, returns
\* completed and never writes or returns timeout, whatever came before.
C2_TwoMissesComplete ==
    \A r \in Runs :
        probeTail[r] >= 2 =>
            /\ pc[r] \in CompletedPcs \cup EndPcs
            /\ \A i \in 1..Len(written[r]) :
                written[r][i] # INSTALL_STATUS_TIMEOUT
            /\ pc[r] # "completed_status" =>
                /\ Last(written[r]) = INSTALL_STATUS_COMPLETED
                /\ Record(r).status = INSTALL_STATUS_COMPLETED
            /\ pc[r] \in EndPcs => returned[r] = Some(INSTALL_STATUS_COMPLETED)

\* the two misses came in the last iteration the window allows, after the
\* port had been seen open
C2_Witness ==
    /\ pc[1] = "done"
    /\ returned[1] = Some(INSTALL_STATUS_COMPLETED)
    /\ seenOpen[1]
    /\ probeTail[1] = 2
    /\ lastElapsed[1] = TIMEOUT_INSTALLATION - TIMEOUT_MONITORING_START

\* C3: once the deadline test of the monitoring loop has seen more than
\* 1800 - 360 = 1440 seconds elapsed, the run is in its timeout branch: it
\* writes timeout and returns timeout, never completed or failed.
C3_DeadlineTimesOut ==
    \A r \in Runs :
        lastElapsed[r] > 1800 - 360 =>
            /\ pc[r] \in TimeoutPcs \cup EndPcs
            /\ \A i \in 1..Len(written[r]) :
                written[r][i] \notin {INSTALL_STATUS_COMPLETED,
                                      INSTALL_STATUS_FAILED}
            /\ pc[r] # "timeout_status" =>
                /\ Last(written[r]) = INSTALL_STATUS_TIMEOUT
                /\ Record(r).status = INSTALL_STATUS_TIMEOUT
            /\ pc[r] \in EndPcs => returned[r] = Some(INSTALL_STATUS_TIMEOUT)

\* a run timed out with one miss counted, one short of the threshold
C3_Witness ==
    /\ pc[1] = "done"
    /\ returned[1] = Some(INSTALL_STATUS_TIMEOUT)
    /\ lastElapsed[1] > 1800 - 360
    /\ consecutive_closed_count[1] = 1

\* C4: when a run has returned timeout, its ledger record holds the RDP
\* payload (address, fixed port, Administrator, the chosen secret) and the
\* timeout error text.
C4_TimeoutPayloadPersisted ==
    \A r \in Runs :
        returned[r] = Some(INSTALL_STATUS_TIMEOUT) =>
            /\ Record(r).rdp_info = Some(rdp_payload(r))
            /\ Record(r).error # Null

\* C5: in every ledger state every record has a completion time exactly
\* when its phase is completed, failed or timeout.
C5_EndTimeIffTerminal ==
    \A id \in DOMAIN installations :
        installations[id].end_time # Null <=>
            installations[id].status \in TerminalStatuses

\* C6: every RDP payload that get, get_user_installations or the result of
\* process_installation returns has port 22, whatever port is stored.
C6_ReturnedPort22 ==
    /\ \A id \in DOMAIN installations :
        get(id)[1].rdp_info # Null => get(id)[1].rdp_info[1].port = 22
    /\ \A row \in get_user_installations(OWNER) :
        row.rdp_info # Null => row.rdp_info[1].port = 22
    /\ \A r \in Runs :
        result_data[r].rdp_info # Null => result_data[r].rdp_info[1].port = 22

\* a record stored with another port is read while a run has returned its
\* payload and persisted it
C6_Witness ==
    /\ installations[1].rdp_info[1].port # 22
    /\ returned[1] = Some(INSTALL_STATUS_COMPLETED)
    /\ result_data[1].rdp_info # Null
    /\ Record(1).rdp_info # Null

\* C7: when the gathered specs fail a check, the run takes its failure
\* branch with the reason of the first failing check in the order RAM, disk,
\* OS family, persists and returns that reason with failed, and invokes
\* neither prepare_installation nor start_installation.
C7_FirstFailingCheck ==
    \A r \in Runs :
        LET sp == specs[r]
            reason == IF sp.ram_mb < 2048 THEN "Insufficient RAM"
                      ELSE IF sp.disk_gb < 30 THEN "Insufficient disk"
                      ELSE "Unsupported OS"
        IN  (/\ Invoked(r, "check_system_specs")
             /\ \/ sp.ram_mb < 2048
                \/ sp.disk_gb < 30
                \/ sp.os_type \notin SUPPORTED_OS_TYPES) =>
                /\ error[r] = reason
                /\ ~Invoked(r, "prepare_installation")
                /\ ~Invoked(r, "start_installation")
                /\ pc[r] \in FailedPcs \cup EndPcs
                /\ pc[r] # "failed_status" =>
                    /\ Record(r).status = INSTALL_STATUS_FAILED
                    /\ Record(r).error = Some(reason)
                /\ pc[r] \in EndPcs =>
                    /\ returned[r] = Some(INSTALL_STATUS_FAILED)
                    /\ result_data[r].error = Some(reason)

\* a host with 1024 MB of RAM and too small a disk was rejected for its RAM
C7_Witness ==
    /\ pc[1] = "done"
    /\ Invoked(1, "check_system_specs")
    /\ specs[1].ram_mb = 1024
    /\ specs[1].disk_gb = 20
    /\ specs[1].os_type = "centos"
    /\ Record(1).error = Some("Insufficient RAM")

\* C8: the phase of a record that is in a terminal phase never changes
\* again, whoever writes to the record.
C8_TerminalIsFinal ==
    [][\A id \in DOMAIN installations :
         installations[id].status \in TerminalStatuses =>
            installations'[id].status = installations[id].status]_vars

\* C9: a connect attempt rejected for its credentials fails the run with the
\* authentication cause string, one that timed out with the unreachable
\* cause string, never the other; that string is persisted as the error of
\* the failed record and returned.
C9_ConnectCause ==
    \A r \in Runs :
        connectCause[r] \in {"PermissionDenied", "TimeoutError"} =>
            LET cause ==
                    IF connectCause[r] = "PermissionDenied"
                    THEN "Authentication failed - incorrect password or username"
                    ELSE "Connection timeout - VPS unreachable or SSH port blocked"
            IN  /\ error[r] = cause
                /\ pc[r] \in FailedPcs \cup EndPcs
                /\ pc[r] # "failed_status" =>
                    /\ Record(r).status = INSTALL_STATUS_FAILED
                    /\ Record(r).error = Some(cause)
                /\ pc[r] \in EndPcs =>
                    /\ returned[r] = Some(INSTALL_STATUS_FAILED)
                    /\ result_data[r].error = Some(cause)

\* a run whose credentials were rejected has ended
C9_Witness ==
    /\ pc[1] = "done"
    /\ connectCause[1] = "PermissionDenied"
    /\ Record(1).error = Some(AUTH_ERROR)
    /\ result_data[1].error = Some(AUTH_ERROR)

\* C10: a run that built its session manager has awaited cleanup when it
\* ends, on every path (failure return, completed, timeout, exception), and
\* none of its sessions is open then.
C10_CleanupBeforeEnd ==
    \A r \in Runs :
        (pc[r] = "done" /\ ssh[r]) =>
            /\ cleanupRan[r]
            /\ openSessions[r] = {}

\* a run with a connected session ended by an exception that left the
\* except clause
C10_Witness ==
    /\ pc[1] = "done"
    /\ returned[1] = Some("raised")
    /\ connectCause[1] = "Connected"
    /\ cleanupRan[1]
    /\ openSessions[1] = {}

Logged(id, message) ==
    /\ id \in DOMAIN logs
    /\ \E i \in 1..Len(logs[id]) : logs[id][i] = message

StatusLogged(id, status) == Logged(id, <<"Status changed to: ", status>>)

\* C11: a run in which an exception left the try body ends by returning
\* failed, with failed and the exception text persisted on its record if it
\* has one, and with cleanup awaited if it built a session manager; the
\* exception does not leave process_installation.
C11_ExceptionReturnsFailed ==
    \A r \in Runs :
        (pc[r] = "done" /\ error[r] = "send raised") =>
            /\ returned[r] = Some(INSTALL_STATUS_FAILED)
            /\ result_data[r].error = Some("send raised")
            /\ install_id[r] # 0 =>
                /\ Record(r).status = INSTALL_STATUS_FAILED
                /\ Record(r).error = Some("send raised")
            /\ ssh[r] => cleanupRan[r]

\* C12: a run that has returned failed or timeout has written that terminal
\* status to its ledger record, appended the log line of the change and
\* updated the install counters of the owner, also when the record could not
\* be created.
C12_FailurePathsWriteAll ==
    \A r \in Runs :
        returned[r] \in {Some(INSTALL_STATUS_FAILED),
                         Some(INSTALL_STATUS_TIMEOUT)} =>
            /\ install_id[r] # 0
            /\ Record(r).status = returned[r][1]
            /\ StatusLogged(install_id[r], returned[r][1])
            /\ stats.total_installs > 0
            /\ stats.failed_installs > 0

\* C13: in every ledger state, a second call of the stuck-job sweep right
\* after a first one (at the same clock reading) changes no record and reports zero affected records: no
\* active record older than the run timeout is left by the first call.
C13_SweepIdempotent ==
    LET once == Sweep(installations, now)
    IN  /\ Sweep(once, now) = once
        /\ Affected(once, now) = 0
        /\ \A id \in DOMAIN once : ~IsStuck(once[id], now)

\* the sweep has just marked the record of a live run, and nothing is left
\* for a second call
C13_Witness ==
    /\ install_id[1] # 0
    /\ pc[1] # "done"
    /\ Record(1).error = Some("Installation timeout (30 minutes)")
    /\ Record(1).status = INSTALL_STATUS_TIMEOUT
    /\ Affected(installations, now) = 0

\* C14: get_logs(install_id, N) returns rows of that installation only,
\* oldest first; it returns all of them when there are at most N and
\* otherwise exactly N, none of them older than a row it leaves out.
C14_LogsChronological ==
    fetched # Null =>
        LET res == fetched[1].logs
            id == fetched[1].install_id
            rows == fetched[1].table
            mine == {i \in 1..Len(rows) : rows[i].install_id = id}
            got == {i \in mine :
                      \E k \in 1..Len(res) : res[k].message = rows[i].message}
        IN  /\ \A k \in 1..Len(res) :
                \E i \in mine :
                    /\ rows[i].message = res[k].message
                    /\ rows[i].timestamp = res[k].time
            /\ \A j, k \in 1..Len(res) : j < k =>
                /\ res[j].time <= res[k].time
                /\ res[j].message # res[k].message
            /\ Len(res) = Min(fetched[1].limit, Cardinality(mine))
            /\ \A i \in mine \ got, j \in got :
                rows[i].timestamp <= rows[j].timestamp

\* a truncated view: of three rows of one installation written at three
\* different times, the two most recent are returned
C14_Witness ==
    /\ fetched # Null
    /\ fetched[1].limit = 2
    /\ Len(fetched[1].logs) = 2
    /\ fetched[1].logs[1].time < fetched[1].logs[2].time
    /\ fetched[1].logs[1].time > 0
    /\ Cardinality({i \in 1..Len(fetched[1].table) :
                      fetched[1].table[i].install_id
                          = fetched[1].install_id}) = 3
    /\ Len(fetched[1].table) = 3

\* C15: when a run has returned completed, its ledger record holds the RDP
\* payload (target address, port 22, Administrator, the chosen secret) and
\* the boot mode detected in the checking phase, and the result of the run
\* carries the same payload.
C15_CompletedPayload ==
    \A r \in Runs :
        returned[r] = Some(INSTALL_STATUS_COMPLETED) =>
            LET payload == [ip |-> inp[r].ip, port |-> 22,
                            username |-> "Administrator",
                            password |-> inp[r].rdp_password]
            IN  /\ Record(r).status = INSTALL_STATUS_COMPLETED
                /\ Record(r).rdp_info = Some(payload)
                /\ Record(r).boot_mode = specs[r].boot_mode
                /\ Record(r).boot_mode \in SUPPORTED_BOOT_MODES
                /\ result_data[r].rdp_info = Some(payload)
                /\ result_data[r].boot_mode = specs[r].boot_mode

\* a run on a host that boots in UEFI mode has completed
C15_Witness ==
    /\ returned[1] = Some(INSTALL_STATUS_COMPLETED)
    /\ specs[1].boot_mode = "uefi"
    /\ Record(1).boot_mode = "uefi"
    /\ Record(1).rdp_info # Null

\* C16: a run writes timeout only right after it wrote monitoring; right
\* after starting, connecting, checking, preparing or installing the only
\* terminal phase it writes is failed; a record that is in timeout without
\* its run having written timeout was marked by the stuck-job sweep.
C16_TimeoutOnlyFromMonitoring ==
    \A r \in Runs :
        /\ \A i \in 1..Len(written[r]) :
            /\ written[r][i] = INSTALL_STATUS_TIMEOUT =>
                i > 1 /\ written[r][i - 1] = INSTALL_STATUS_MONITORING
            /\ (/\ i > 1
                /\ written[r][i] \in TerminalStatuses
                /\ written[r][i - 1] \in
                    {INSTALL_STATUS_STARTING, INSTALL_STATUS_CONNECTING,
                     INSTALL_STATUS_CHECKING, INSTALL_STATUS_PREPARING,
                     INSTALL_STATUS_INSTALLING}) =>
                written[r][i] = INSTALL_STATUS_FAILED
        /\ (/\ install_id[r] # 0
            /\ Record(r).status = INSTALL_STATUS_TIMEOUT
            /\ \A i \in 1..Len(written[r]) :
                written[r][i] # INSTALL_STATUS_TIMEOUT) =>
            Record(r).error = Some("Installation timeout (30 minutes)")

\* a run wrote all six phases and then timeout
C16_Witness ==
    written[1] = PhaseOrder \o <<INSTALL_STATUS_TIMEOUT>>

\* C17: a notification of any kind is delivered only for a run whose source
\* is the API front-end and whose owner has a linked chat identity.
C17_NotifyOnlyApiLinked ==
    \A r \in Runs :
        notified[r] # <<>> => inp[r].source = "api" /\ inp[r].linked

\* an API run of a linked account was notified of its start and its end
C17_Witness ==
    /\ pc[1] = "done"
    /\ Len(notified[1]) >= 2
    /\ notified[1][1] = "started"
    /\ Last(notified[1]) = "completed"

\* C18: a notification send that fails never changes the outcome of a run:
\* after a run wrote completed or timeout it writes no failed, and it returns
\* the terminal phase it wrote.
C18_SendFailureKeepsOutcome ==
    \A r \in Runs :
        /\ \A i, j \in 1..Len(written[r]) :
            (i < j /\ written[r][i] \in {INSTALL_STATUS_COMPLETED,
                                         INSTALL_STATUS_TIMEOUT}) =>
                written[r][j] # INSTALL_STATUS_FAILED
        /\ \A i \in 1..Len(written[r]) :
            (written[r][i] \in TerminalStatuses /\ returned[r] # Null) =>
                returned[r] = Some(written[r][i])

\* the remote operation with which each phase after starting begins
PhaseOp == <<"connect", "check_system_specs", "prepare_installation",
             "start_installation">>

\* the log line of the write that begins each of the first four phases
PhaseLog(k) ==
    IF k = 1 THEN <<"Installation started">>
    ELSE <<"Status changed to: ", PhaseOrder[k]>>

\* C19: when the remote operation of a phase has been started, the status
\* write and the log line of the previous phase are committed: a run does
\* not go on to the next remote operation after a write that did not commit.
C19_CommittedBeforeNextPhase ==
    \A r \in Runs :
        \A k \in 1..Len(PhaseOp) :
            Invoked(r, PhaseOp[k]) =>
                /\ \E i \in 1..Len(written[r]) : written[r][i] = PhaseOrder[k]
                /\ Logged(install_id[r], PhaseLog(k))

\* C20: the record of a run never shows a phase other than starting for
\* which no log line of the change was appended.
C20_PhaseChangeLogged ==
    \A r \in Runs :
        (install_id[r] # 0 /\ Record(r).status # INSTALL_STATUS_STARTING) =>
            StatusLogged(install_id[r], Record(r).status)

\* C21: two concurrent runs against different target addresses never
\* contend: no connect, execute or cleanup of one run reads, replaces or
\* closes the session of the other, and the session of a connected run stays
\* open until that run itself ends, under every interleaving of the two.
C21_NoContention ==
    \A r, s \in Runs :
        (r # s /\ inp[r].ip # inp[s].ip) =>
            /\ s \notin touched[r]
            /\ (connectCause[s] = "Connected" /\ pc[s] # "done") =>
                inp[s].ip \in openSessions[s]

\* run 1 has closed its session and ended while run 2, connected to the
\* other address, is still polling over its own open session
C21_Witness ==
    /\ pc[1] = "done"
    /\ cleanupRan[1]
    /\ touched[1] = {1}
    /\ inp[2].ip = "10.0.0.2"
    /\ pc[2] = "check_port"
    /\ touched[2] = {2}
    /\ openSessions[2] = {"10.0.0.2"}

C23_SweepFrame ==
    LET swept == Sweep(installations, now)
    IN  /\ DOMAIN swept = DOMAIN installations
        /\ \A id \in DOMAIN installations :
            LET row == installations[id]
            IN  IF /\ row.status \notin TerminalStatuses
                   /\ row.start_time < now - 1800
                THEN swept[id] =
                        [row EXCEPT
                            !.status = INSTALL_STATUS_TIMEOUT,
                            !.end_time = Some(now),
                            !.error = Some("Installation timeout (30 minutes)"),
                            !.current_step = <<"Installation timeout">>]
                ELSE swept[id] = row

\* a sweep has just marked the record the API front-end had inserted 1801
\* seconds before, next to the record of the run, which is younger and still
\* in a non-terminal phase, and to a completed record, which is older
C23_Witness ==
    /\ install_id[1] = 3
    /\ installations[2].status = INSTALL_STATUS_TIMEOUT
    /\ installations[2].end_time = Some(now)
    /\ installations[2].start_time < now - 1800
    /\ Record(1).status \in active_statuses
    /\ Record(1).start_time >= now - 1800
    /\ installations[1].status = INSTALL_STATUS_COMPLETED
    /\ installations[1].start_time < now - 1800

\* C24: the retention sweep, called with any age, deletes only records that
\* are in a terminal phase and were created more than that age before the
\* call, and leaves every other record as it was; no step of a run of
\* process_installation removes a record from the ledger.
C24_RetentionOnlyOldTerminal ==
    /\ [](\A days \in {Null, Some(0), Some(1)} :
            LET age == IF days = Null THEN 7 ELSE days[1]
                kept == Retained(installations, now, days)
            IN  \A id \in DOMAIN installations :
                    IF id \in DOMAIN kept
                    THEN kept[id] = installations[id]
                    ELSE /\ installations[id].status \in TerminalStatuses
                         /\ installations[id].start_time < now - age * 86400)
    /\ [][pc' # pc => DOMAIN installations \subseteq DOMAIN installations']_vars

\* the sweep, a day after the record of a run was created, has deleted the
\* completed record of an earlier time and left the record of the run, which
\* is as old as the age and in a non-terminal phase
C24_Witness ==
    /\ 1 \notin DOMAIN installations
    /\ install_id[1] \in DOMAIN installations
    /\ Record(1).status \in active_statuses
    /\ Record(1).start_time < now - 86400

\* C25: prepare_installation returns ok only if the download of the
\* installer script succeeded (the command ran to its end with exit status
\* 0) and the verify command ran and found the script; when it returns an
\* error the run goes to failed and the install command is never sent.
C25_PrepareOkOnlyAfterDownload ==
    \A r \in Runs :
        replies[r].prepare # Null =>
            LET in == replies[r].prepare[1].in
                out == replies[r].prepare[1].out
            IN  /\ out.success =>
                    /\ in.download = "returned" /\ in.status = 0
                    /\ in.verify = "returned" /\ in.present
                /\ ~out.success =>
                    /\ ~Invoked(r, "start_installation")
                    /\ returned[r] \in {Null, Some(INSTALL_STATUS_FAILED)}

C27_SpecsNeverAbort ==
    \A r \in Runs :
        replies[r].specs # Null =>
            LET in == replies[r].specs[1].in
                out == replies[r].specs[1].out
            IN  /\ DOMAIN out = {"ram_mb", "disk_gb", "cpu_cores", "os_type",
                                 "boot_mode"}
                /\ out.ram_mb = IF in.ram = Null THEN 0 ELSE in.ram[1]
                /\ out.disk_gb = IF in.disk = Null THEN 0 ELSE in.disk[1]
                /\ out.cpu_cores = IF in.cpu = Null THEN 0 ELSE in.cpu[1]
                /\ out.os_type = IF in.os # Null THEN in.os[1]
                                 ELSE IF in.fallback # Null THEN in.fallback[1]
                                 ELSE "unknown"
                /\ out.boot_mode \in {"uefi", "legacy"}

\* the RAM probe and both OS probes failed, the disk and CPU probes succeeded
C27_Witness ==
    /\ replies[1].specs # Null
    /\ replies[1].specs[1].in.ram = Null
    /\ replies[1].specs[1].in.os = Null
    /\ replies[1].specs[1].in.fallback = Null
    /\ replies[1].specs[1].in.disk = Some(40)
    /\ replies[1].specs[1].out.ram_mb = 0
    /\ replies[1].specs[1].out.disk_gb = 40
    /\ replies[1].specs[1].out.cpu_cores = 2
    /\ replies[1].specs[1].out.os_type = "unknown"

\* C28: get_image_url is a function of its two arguments: two calls with the
\* same OS code and boot mode gave the same URL; the URL begins with the UEFI
\* prefix when the boot mode is uefi and with the BIOS prefix for every other
\* boot mode value.
C28_ImageUrlByBootMode ==
    \A a, b \in resolved :
        /\ (a.os_code = b.os_code /\ a.boot_mode = b.boot_mode) => a.url = b.url
        /\ a.url[1] = IF a.boot_mode = "uefi"
                      THEN "https://winstaller.io/eufi/"
                      ELSE "https://winstaller.io/bios/"

\* the image of one OS code has been resolved for uefi, for legacy and for
\* two strings that are no boot mode
C28_Witness ==
    \A mode \in {"uefi", "legacy", "unknown", "UEFI"} :
        \E a \in resolved : a.os_code = "ws2019" /\ a.boot_mode = mode

\* C29: a run is declared completed only when some probe of its monitoring
\* loop had found the port open before the consecutive misses that end the
\* loop.
C29_CompletedOnlyAfterOpen ==
    \A r \in Runs :
        (pc[r] = "completed_status" \/
         returned[r] = Some(INSTALL_STATUS_COMPLETED)) => seenOpen[r]

\* C30: when the install command returned without a marker in its stderr, or
\* ended by the timeout of execute, start_installation sent the reboot
\* command exactly once and returned success however the reboot command
\* ended, and the run goes on to the monitoring phase.
C30_RebootOnceThenMonitoring ==
    \A r \in Runs :
        replies[r].install # Null =>
            LET in == replies[r].install[1].in
                out == replies[r].install[1].out
            IN  (\/ in.ending = "timeout"
                 \/ in.ending = "returned" /\ ~HasMarker(in.stderr)) =>
                    /\ out.success
                    /\ out.reboots = 1
                    /\ \/ pc[r] = "status_monitoring"
                       \/ \E i \in 1..Len(written[r]) :
                            written[r][i] = INSTALL_STATUS_MONITORING

\* the install command returned with nothing on stderr, the reboot command
\* timed out, and the run has written the monitoring phase
C30_Witness ==
    /\ replies[1].install # Null
    /\ replies[1].install[1].in.ending = "returned"
    /\ replies[1].install[1].in.stderr = <<>>
    /\ replies[1].install[1].in.reboot = "timeout"
    /\ replies[1].install[1].out.success
    /\ replies[1].install[1].out.reboots = 1
    /\ Last(written[1]) = INSTALL_STATUS_MONITORING

\* C31: a run started by the API front-end for an account with a linked chat
\* identity has, when it starts the remote operation of a major phase
\* (checking, installing) or the wait of the monitoring phase, called
\* send_message with a progress text that names this phase.
C31_MajorPhasesNotified ==
    \A r \in Runs :
        (inp[r].source = "api" /\ inp[r].linked) =>
            /\ pc[r] = "check_system_specs" =>
                \E k \in attempted[r] : MajorPhaseOf(k) = "checking"
            /\ pc[r] = "start_installation" =>
                \E k \in attempted[r] : MajorPhaseOf(k) = "installing"
            /\ pc[r] = "sleep_start" =>
                \E k \in attempted[r] : MajorPhaseOf(k) = "monitoring"

\* C32: within one run connect, check_system_specs, prepare_installation and
\* start_installation are invoked in this order and each at most once; once
\* one of them (or the check of the specs) has failed the run invokes no
\* further remote operation and returns failed.
C32_NoRemoteRetry ==
    /\ [](\A r \in Runs :
            /\ IsPrefix(remoteOps[r],
                        <<"connect", "check_system_specs",
                          "prepare_installation", "start_installation">>)
            /\ (error[r] # "" /\ returned[r] # Null) =>
                    returned[r] = Some(INSTALL_STATUS_FAILED))
    /\ [][\A r \in Runs :
            error[r] # "" => remoteOps'[r] = remoteOps[r]]_vars

\* prepare_installation failed: the run ended as failed after three remote
\* operations, without start_installation
C32_Witness ==
    /\ pc[1] = "done"
    /\ returned[1] = Some(INSTALL_STATUS_FAILED)
    /\ error[1] \in {"Failed to download script", "Script verification failed"}
    /\ remoteOps[1] = <<"connect", "check_system_specs", "prepare_installation">>

\* C33: a ledger query (execute_query, fetch_one, fetch_all) makes at most 3
\* attempts; a successful attempt is the last event and its result is
\* returned; the loop sleeps the fixed delay after every failed attempt but
\* the third and nowhere else; after the third failed attempt it raises
\* DatabaseError, and it ends in no other way.
C33_QueryRetry ==
    LET ev == query.events
        attempts == {i \in 1..Len(ev) : ev[i] \in {"ok", "failed"}}
        sleeps == {i \in 1..Len(ev) : ev[i] = "sleep"}
    IN  /\ Cardinality(attempts) <= 3
        /\ \A i \in 1..Len(ev) :
            /\ ev[i] = "ok" => i = Len(ev) /\ query.state = "returned"
            /\ ev[i] = "sleep" => i > 1 /\ ev[i - 1] = "failed"
            /\ (ev[i] = "failed" /\ i < Len(ev)) => ev[i + 1] = "sleep"
            /\ (ev[i] = "failed" /\ i = Len(ev)) =>
                    IF Cardinality(attempts) = 3 THEN query.state = "raised"
                    ELSE query.state = "sleeping"
        /\ query.state = "returned" => ev # <<>> /\ ev[Len(ev)] = "ok"
        /\ query.state = "raised" =>
                Cardinality(attempts) = 3 /\ ev[Len(ev)] = "failed"
        /\ now - query.started = 5 * Cardinality(sleeps)

\* a second query failed three times and raised, ten seconds after it began
C33_Witness ==
    /\ query.calls = 2
    /\ query.state = "raised"
    /\ query.events = <<"failed", "sleep", "failed", "sleep", "failed">>
    /\ now - query.started = 10

\* C34 as stated: when two runs for the same address are both in flight
\* with a session opened, the session map is one map keyed by address, so
\* both runs find the same session object under the address (the one the
\* later connect put there).
C34_SharedSessionMap ==
    \A r, s \in Runs :
        (/\ r # s /\ inp[r].ip = inp[s].ip
         /\ pc[r] \notin {"idle", "done"} /\ pc[s] \notin {"idle", "done"}
         /\ inp[r].ip \in openSessions[r] /\ inp[s].ip \in openSessions[s]) =>
            /\ SSHManager(r) = SSHManager(s)
            /\ SessionOwners(r) = SessionOwners(s)

\* C34, amended: every run builds a session manager of its own, so when two
\* runs are in flight for the same address the connect of one does not
\* replace the session of the other: no operation of a run uses a session
\* the other run opened, a connected run finds its own session under the
\* address, and that session stays open until the run itself ends.
C34_OwnSessionSameAddress ==
    \A r, s \in Runs :
        (r # s /\ inp[r].ip = inp[s].ip /\ inp[r].ip # "") =>
            /\ s \notin touched[r]
            /\ (connectCause[r] = "Connected" /\ pc[r] # "done") =>
                /\ inp[r].ip \in openSessions[r]
                /\ SessionOwners(r) = {r}

\* both runs poll the same address, each over the session it opened
C34_Witness ==
    /\ inp[1].ip = inp[2].ip
    /\ pc[1] = "check_port" /\ pc[2] = "check_port"
    /\ SessionOwners(1) = {1} /\ SessionOwners(2) = {2}
    /\ touched[1] = {1} /\ touched[2] = {2}

\* C35: for every installation the API accepted, exactly one ledger record
\* is created, and the id the API answered with is the id of the record the
\* run moves through its phases.
C35_AcceptedIdIsRunRecord ==
    \A r \in Runs :
        accepted[r] # 0 =>
            /\ install_id[r] # 0 => install_id[r] = accepted[r]
            /\ (\A s \in Runs \ {r} : pc[s] = "idle") =>
                   Cardinality({i \in DOMAIN installations :
                                  installations[i].ip = inp[r].ip}) = 1

\* the runs that have ended and had created a record, and those of them
\* that returned the given statuses
Ended(statuses) ==
    {r \in Runs : /\ pc[r] = "done" /\ install_id[r] # 0
                  /\ returned[r] \in {Some(st) : st \in statuses}}

\* C36: every run that created a record updates the statistics exactly once:
\* the total grows by one per run, the success counter only for a run that
\* completed, the failed counter only for a run that failed or timed out, and
\* no run is counted in both.  Stated for the states in which every run
\* that started has ended, and counting an update the database refused as
\* made: no counter exceeds the number of runs it is for (a run that ended
\* with an exception is one of the failed ones).
C36_StatsOncePerRun ==
    (\A r \in Runs : pc[r] \in {"idle", "done"}) =>
        /\ stats.total_installs <=
               Cardinality({r \in Runs : pc[r] = "done" /\ install_id[r] # 0})
        /\ stats.success_installs <=
               Cardinality(Ended({INSTALL_STATUS_COMPLETED}))
        /\ stats.failed_installs <=
               Cardinality(Ended({INSTALL_STATUS_FAILED,
                                  INSTALL_STATUS_TIMEOUT, "raised"}))
        /\ stats.success_installs + stats.failed_installs =
               stats.total_installs

\* C37: whenever a run invokes the install command, a script that a
\* preparation downloaded is in the staging directory of its host, also
\* when a second run against the same address is interleaved with it.
C37_ScriptStagedAtInstall ==
    [][\A r \in Runs :
        (pc[r] = "start_installation" /\ pc'[r] # pc[r] /\ Connected(r)) =>
            staging[inp[r].ip] # 0]_vars

\* C38: the registry of active installations has an entry for every run
\* from the chat that is in progress and none for a run that has ended, and
\* an entry is removed only when the run it was stored for ends, also when
\* the same user starts two runs for the same address.
C38_RegistryTracksChatRuns ==
    /\ [](/\ \A r \in Runs :
                (inp[r].source = "telegram" /\ pc[r] \notin {"idle", "done"}) =>
                    active_installations[task_id(OWNER, inp[r].ip)] # 0
          /\ \A ip \in IPs :
                active_installations[ip] # 0 =>
                    pc[active_installations[ip]] # "done")
    /\ [][\A ip \in IPs :
            (active_installations[ip] # 0 /\ active_installations'[ip] = 0) =>
                /\ pc[active_installations[ip]] = "finally"
                /\ pc'[active_installations[ip]] = "done"]_vars

\* C39: the counter of consecutive misses is always between 0 and the
\* threshold; a probe that finds the port open sets it to 0, a probe that
\* finds it closed adds one, nothing else changes it inside the loop, and
\* the loop is left for the completed branch in the very iteration in which
\* the counter reaches the threshold.
C39_MissCounter ==
    /\ [](\A r \in Runs :
            /\ consecutive_closed_count[r] \in 0..TIMEOUT_MONITORING_CHECKS
            /\ pc[r] \in {"loop_check", "check_port", "loop_sleep"} =>
                   consecutive_closed_count[r] < TIMEOUT_MONITORING_CHECKS)
    /\ [][\A r \in Runs :
            /\ (pc[r] = "check_port" /\ pc'[r] # pc[r]) =>
                /\ probeTail'[r] = 0 => consecutive_closed_count'[r] = 0
                /\ probeTail'[r] # 0 =>
                       consecutive_closed_count'[r] =
                           consecutive_closed_count[r] + 1
                /\ consecutive_closed_count'[r] = TIMEOUT_MONITORING_CHECKS
                       <=> pc'[r] = "completed_status"
                /\ consecutive_closed_count'[r] < TIMEOUT_MONITORING_CHECKS
                       <=> pc'[r] = "loop_sleep"
            /\ (pc[r] \in {"loop_check", "loop_sleep"}) =>
                   consecutive_closed_count'[r] = consecutive_closed_count[r]
      ]_vars

\* the counter went up to one, back to zero on an open probe, and then up
\* to the threshold, where the loop was left
C39_Witness ==
    /\ pc[1] = "completed_status"
    /\ consecutive_closed_count[1] = TIMEOUT_MONITORING_CHECKS
    /\ seenOpen[1]
    /\ probeCount[1] = 4

\* the probes the monitoring window has room for when every iteration takes
\* the poll interval: floor((1800 - 360) / 10) + 1 = 145
MaxProbes == (max_monitoring_time \div TIMEOUT_MONITORING_INTERVAL) + 1

LoopPcs == {"loop_check", "check_port", "loop_sleep"}

\* C40: the monitoring loop always terminates: a run makes at most 145 probes
\* (time advances by at least the poll interval in every iteration), it
\* leaves the loop only for the completed or the timeout branch, and every
\* run that reaches monitoring eventually returns completed or timeout.
C40_MonitoringTerminates ==
    /\ [](\A r \in Runs : probeCount[r] <= MaxProbes)
    /\ [][\A r \in Runs :
            (pc[r] \in LoopPcs /\ pc'[r] \notin LoopPcs) =>
                pc'[r] \in {"completed_status", "timeout_status"}]_vars
    /\ \A r \in Runs :
            (pc[r] = "sleep_start") ~>
                (/\ pc[r] = "done"
                 /\ returned[r] \in {Some(INSTALL_STATUS_COMPLETED),
                                     Some(INSTALL_STATUS_TIMEOUT)})

\* a run that probed 145 times, the port open every time, and timed out
C40_Witness ==
    /\ pc[1] = "done"
    /\ returned[1] = Some(INSTALL_STATUS_TIMEOUT)
    /\ probeCount[1] = MaxProbes
    /\ consecutive_closed_count[1] = 0
====
